---- MODULE Spec2Model ----
(***************************************************************************)
(* Model of the task execution and cluster dispatch of CGATPipelines:      *)
(* Pipeline.run() and its helpers (src/CGATPipelines/Pipeline.py).         *)
(*                                                                         *)
(* Python dictionaries are functions with a finite domain of string keys.  *)
(* Python values are strings ("True", "False", "None", queue names, ...).  *)
(* A statement template is a sequence of tokens, a token being a literal   *)
(* piece of text or a %(key)s placeholder.                                 *)
(***************************************************************************)
EXTENDS Integers, Sequences, FiniteSets, TLC

\* ------------------------------------------------------------------------
\* Bounds of the model
\* ------------------------------------------------------------------------

\* longest `statements` list a caller passes to run()
MaxStatements == 2

\* longest chain of steps a caller passes to joinStatements
MaxSteps == 3

\* most calls of getParameters in one process
MaxCalls == 2

\* the largest value of the tries argument of getStdoutStderr
MaxTries == 2

\* the largest number of statements in the statements list of a worker
MaxBatch == 2

\* largest `end` of a job_array range a caller passes, besides (0, 10, 2)
MaxArrayEnd == 2

\* ------------------------------------------------------------------------
\* Python values and dictionaries
\* ------------------------------------------------------------------------

\* the empty dictionary
EmptyDict == <<>>

\* dict.update: b's items win over a's
Update(a, b) == b @@ a

\* dict.get(k, default)
Get(d, k, default) == IF k \in DOMAIN d THEN d[k] ELSE default

\* truth value of a Python value used in a condition
Truthy(v) == v \notin {"None", "False", ""}

\* a dictionary holding key k with one of the values vals, or not holding k
Opt(k, vals) == {EmptyDict} \cup {k :> v : v \in vals}

\* all unions of one dictionary of A with one of B (disjoint keys)
Cross(A, B) == {a @@ b : a \in A, b \in B}

\* ------------------------------------------------------------------------
\* Statement templates
\* ------------------------------------------------------------------------

Lit(s) == [kind |-> "lit", text |-> s]
Ph(k) == [kind |-> "ph", text |-> k]
\* a conversion the % operator cannot parse, such as "%(key" with no ")s"
Bad(k) == [kind |-> "bad", text |-> k]

\* "echo %(cluster_queue)s": builds with every parameter map
tplEcho == <<Lit("echo"), Ph("cluster_queue")>>
\* "cat %(undefined_key)s": references a key defined nowhere
tplUndefined == <<Lit("cat"), Ph("undefined_key")>>
\* "diff <( sort a ) b": uses shell process substitution
tplProcSubst == <<Lit("diff"), Lit("<("), Lit("sort a ) b")>>

Templates == {tplEcho, tplUndefined, tplProcSubst}

\* "samtools sort -@ %(threads)s": needs the key threads
tplThreads == <<Lit("samtools sort -@"), Ph("threads")>>
\* "echo %(cluster_queue": a placeholder that is not closed
tplMalformed == <<Lit("echo"), Bad("cluster_queue")>>
\* "echo %(x)s"
tplX == <<Lit("echo"), Ph("x")>>

\* the statements lists a caller may pass: 1..MaxStatements templates
StatementLists == UNION {[1..n -> Templates] : n \in 1..MaxStatements}

\* the job_array ranges (start, end, step) a caller may pass
JobArrays == {<<0, 10, 2>>} \cup {<<0, e, 1>> : e \in 1..MaxArrayEnd}

\* ------------------------------------------------------------------------
\* Global configuration
\* ------------------------------------------------------------------------

\* the hard-coded parameters that run() reads
HARDCODED_PARAMS ==
    [cluster_queue |-> "all.q",
     cluster_options |-> "",
     cluster_priority |-> "-10",
     cluster_parallel_environment |-> "dedicated",
     cluster_memory_resource |-> "mem_free",
     cluster_memory_default |-> "2G"]

\* the keys a configuration file may add to the hard-coded parameters
IniChoices == Cross(Opt("without_cluster", {"False", "True"}),
                    Opt("to_cluster", {"False"}))

\* main() writes the --dry-run command line option into PARAMS
DryRunOptions == {"False", "True"}

\* the published parameter maps: configuration files over the hard-coded
\* values, then the command line options
PublishedParams ==
    {Update(Update(HARDCODED_PARAMS, ini), "dryrun" :> d) :
        ini \in IniChoices, d \in DryRunOptions}

\* ------------------------------------------------------------------------
\* What a caller of run() passes
\* ------------------------------------------------------------------------

\* the statement(s) in the caller's frame: one statement, one statement
\* with a job_array, or a statements list
CallerWork ==
    {("statement" :> t) : t \in Templates}
    \cup {("statement" :> t) @@ ("job_array" :> a) :
             t \in Templates, a \in JobArrays}
    \cup {("statements" :> l) : l \in StatementLists}

\* the local variables of the calling function
CallerLocals ==
    Cross(Cross(CallerWork, Opt("to_cluster", {"False", "True"})),
          Opt("ignore_errors", {"True"}))

\* the keyword arguments of the call
CallerKwargs ==
    Cross(Opt("to_cluster", {"False", "True"}),
          Opt("job_options", {"-l mem_free=4G", "mem_free"}))

\* the parameter maps of a pipeline whose tasks set the number of threads,
\* for all tasks (threads) or for the task of one output file
TaskParams ==
    {Update(Update(HARDCODED_PARAMS, "dryrun" :> "False"), extra) :
        extra \in Cross(Opt("threads", {"4"}),
                        Opt("sample1.bam.gz_threads", {"6"}))}

TaskTemplates == {tplEcho, tplThreads, tplMalformed}

\* the frame of such a task: no statement at all, one statement, an array
\* job or a statements list, with or without the output file of the task
TaskWork ==
    {EmptyDict}
    \cup {("statement" :> t) : t \in TaskTemplates}
    \cup {("statement" :> tplEcho) @@ ("job_array" :> <<0, 2, 1>>)}
    \cup {("statements" :> l) :
             l \in UNION {[1..n -> TaskTemplates] : n \in 1..MaxStatements}}

TaskLocals == Cross(TaskWork, Opt("outfile", {"sample1.bam.gz"}))

\* the keyword arguments of such a task: the memory request, as job_memory
\* or as a mem_free marker in job_options
TaskKwargs ==
    Cross(Opt("job_memory", {"1G"}),
          Opt("job_options", {"-l mem_free=4G", "mem_free"}))

\* ------------------------------------------------------------------------
\* Parameter substitution and statement building
\* ------------------------------------------------------------------------

\* the task specific keys of the model, <outfile>_<param>, with their parts
TaskSpecificKeys ==
    {[key |-> "sample1.bam.gz_threads", outfile |-> "sample1.bam.gz",
      param |-> "threads"]}

\* k.startswith(outfile)
StartsWith(k, outfile) ==
    k = outfile \/ \E t \in TaskSpecificKeys : t.key = k /\ t.outfile = outfile

\* k[len(outfile) + 1:]
Suffix(k, outfile) ==
    IF \E t \in TaskSpecificKeys : t.key = k /\ t.outfile = outfile
    THEN (CHOOSE t \in TaskSpecificKeys : t.key = k /\ t.outfile = outfile).param
    ELSE ""

\* substituteParameters(**kwargs): the error raised, "none" if it returns
substituteParametersError(params, kwargs) ==
    LET local_params == Update(params, kwargs)
    IN  IF "outfile" \in DOMAIN local_params
           /\ \E k \in DOMAIN local_params :
                 /\ StartsWith(k, local_params["outfile"])
                 /\ Suffix(k, local_params["outfile"]) \notin DOMAIN local_params
        THEN "KeyError"
        ELSE "none"

\* substituteParameters without the task specific values
substituteParameters_merge_only(params, kwargs) == Update(params, kwargs)

\* substituteParameters(**kwargs): the dictionary it returns
substituteParameters(params, kwargs) ==
    LET local_params == Update(params, kwargs)
        outfile == local_params["outfile"]
        specific(p) == {k \in DOMAIN local_params :
                           StartsWith(k, outfile) /\ Suffix(k, outfile) = p}
    IN  IF "outfile" \in DOMAIN local_params
        THEN [p \in DOMAIN local_params |->
                 IF specific(p) # {}
                 THEN local_params[CHOOSE k \in specific(p) : TRUE]
                 ELSE local_params[p]]
        ELSE local_params

\* 'statement % local_params' stops at token i: a conversion it cannot parse
\* or a key that local_params does not hold
format_stops(t, local_params, i) ==
    \/ t[i].kind = "bad"
    \/ t[i].kind = "ph" /\ t[i].text \notin DOMAIN local_params

\* the first token 'statement % local_params' stops at, 0 if it stops nowhere
first_stop(t, local_params) ==
    IF \E i \in DOMAIN t : format_stops(t, local_params, i)
    THEN CHOOSE i \in DOMAIN t :
            /\ format_stops(t, local_params, i)
            /\ \A j \in 1..(i - 1) : ~format_stops(t, local_params, j)
    ELSE 0

\* buildStatement(**kwargs): the error raised, "none" if it returns
buildStatementError(params, kwargs) ==
    IF "statement" \notin DOMAIN kwargs THEN "ValueError"
    ELSE IF substituteParametersError(params, kwargs) # "none" THEN "KeyError"
    ELSE LET local_params == substituteParameters(params, kwargs)
             t == kwargs["statement"]
             stop == first_stop(t, local_params)
         IN  IF stop = 0 THEN "none"
             ELSE IF t[stop].kind = "bad" THEN "ValueError"
             ELSE "KeyError"

\* buildStatementMessage naming no key
buildStatementMessage_no_key(params, kwargs) ==
    IF "statement" \notin DOMAIN kwargs THEN <<"'statement' not defined">>
    ELSE <<"Error when creating command">>

\* buildStatement(**kwargs): the message of the error raised
buildStatementMessage(params, kwargs) ==
    IF "statement" \notin DOMAIN kwargs THEN <<"'statement' not defined">>
    ELSE IF substituteParametersError(params, kwargs) # "none"
    THEN <<"task specific parameter does not exist">>
    ELSE LET local_params == substituteParameters(params, kwargs)
             t == kwargs["statement"]
             stop == first_stop(t, local_params)
         IN  IF t[stop].kind = "bad"
             THEN <<"Error when creating command", "statement =">>
             ELSE <<"Error when creating command: could not find",
                    t[stop].text, "in dictionaries">>

\* buildStatement(**kwargs): the statement it returns, every placeholder
\* replaced by the value of its key
buildStatement(params, kwargs) ==
    LET local_params == substituteParameters(params, kwargs)
        t == kwargs["statement"]
    IN  [i \in DOMAIN t |->
            IF t[i].kind = "ph" THEN local_params[t[i].text] ELSE t[i].text]

\* expandStatement(statement, ignore_pipe_errors)
expandStatement(statement, ignore_pipe_errors) ==
    IF ignore_pipe_errors THEN statement
    ELSE <<"_exec_prefix">> \o statement \o <<"_exec_suffix">>

\* '"<(" in statement'
HasProcessSubstitution(statement) ==
    \E i \in DOMAIN statement : statement[i] = "<("

\* ------------------------------------------------------------------------
\* run(): options, memory request and routing
\* ------------------------------------------------------------------------

\* merge_options with the two updates swapped: caller locals win over kwargs
merge_options_locals_win(params, locals, kw) ==
    Update(Update(params, kw), locals)

\* options = dict(PARAMS.items()); options.update(getCallerLocals().items());
\* options.update(kwargs.items())
merge_options(params, locals, kw) == Update(Update(params, locals), kw)

\* the legacy synonyms inserted into options
legacy_synonyms(o) ==
    Update(o, [cluster_options |-> Get(o, "job_options", o["cluster_options"]),
               cluster_queue |-> Get(o, "job_queue", o["cluster_queue"]),
               without_cluster |-> Get(o, "without_cluster", "None")])

\* '"mem_free" in o' for the option strings of the model
mem_free_in(o) == o \in {"-l mem_free=4G", "mem_free"}

\* re.search("-l\s*mem_free\s*=\s*(\S+)", o): the group, "None" if no match
mem_free_search(o) == IF o = "-l mem_free=4G" THEN "4G" ELSE "None"

\* re.sub("-l\S*mem_free\s*=\s(\S+)", "", o): the pattern wants no blank
\* after -l and one blank after =, so it matches no string of the model
mem_free_sub(o) == o

\* memory_source looking for the legacy marker before job_memory
memory_source_legacy_first(params, o) ==
    IF mem_free_in(o["cluster_options"])
       /\ Truthy(Get(params, "cluster_memory_resource", "False"))
    THEN "legacy"
    ELSE IF "job_memory" \in DOMAIN o THEN "job_memory"
    ELSE "default"

\* the branch of the memory resolution taken
memory_source(params, o) ==
    IF "job_memory" \in DOMAIN o THEN "job_memory"
    ELSE IF mem_free_in(o["cluster_options"])
            /\ Truthy(Get(params, "cluster_memory_resource", "False"))
         THEN "legacy"
         ELSE "default"

\* job_memory as resolved by run(); "None" when the legacy pattern fails
resolve_job_memory(params, o) ==
    CASE memory_source(params, o) = "job_memory" -> o["job_memory"]
      [] memory_source(params, o) = "legacy" ->
            mem_free_search(o["cluster_options"])
      [] OTHER -> Get(params, "cluster_memory_default", "2G")

\* decide_run_on_cluster without the test of without_cluster
decide_run_on_cluster_no_local(o, session) ==
    /\ ("to_cluster" \notin DOMAIN o \/ Truthy(o["to_cluster"]))
    /\ session # "None"

\* run_on_cluster: to_cluster absent or true, without_cluster false and a
\* session present
decide_run_on_cluster(o, session) ==
    /\ ("to_cluster" \notin DOMAIN o \/ Truthy(o["to_cluster"]))
    /\ ~Truthy(o["without_cluster"])
    /\ session # "None"

\* options.get("dryrun", False)
is_dryrun(o) == Truthy(Get(o, "dryrun", "False"))

\* options.get("ignore_errors", False)
is_ignore_errors(o) == Truthy(Get(o, "ignore_errors", "False"))

\* options.get("ignore_pipe_errors", False)
is_ignore_pipe_errors(o) == Truthy(Get(o, "ignore_pipe_errors", "False"))

\* options.get("statements"): a non-empty list
has_statements(o) == "statements" \in DOMAIN o /\ Len(o["statements"]) > 0

\* the templates run() builds, in order
templates_to_build(o) ==
    IF has_statements(o) THEN o["statements"]
    ELSE IF "statement" \in DOMAIN o THEN <<o["statement"]>>
    ELSE <<>>

\* ------------------------------------------------------------------------
\* The cluster, the file system and local processes
\* ------------------------------------------------------------------------

\* exit statuses of a finished cluster job
ExitStatuses == {0, 1}

\* Popen.returncode of a finished local process: an exit code, or minus the
\* number of the signal that killed it
ReturnCodes == {0, 1, 0 - 9}

\* what session.wait does: return the job info, raise the "code 24"
\* exception of the resource manager, or raise some other exception
WaitOutcomes == {"retval", "code 24", "other"}

\* the files of a job script with temporary name n
job_path(n) == <<"job", n>>
stdout_path(n) == <<"stdout", n>>
stderr_path(n) == <<"stderr", n>>

\* getStdoutStderr: the files left after reading and unlinking; the second
\* unlink is skipped when the first one fails
getStdoutStderr_files(fs, n) ==
    IF stdout_path(n) \in fs THEN fs \ {stdout_path(n), stderr_path(n)}
    ELSE fs

\* getStdoutStderr: the stderr it returns, 0 standing for the empty list
getStdoutStderr_stderr(fs, n) == IF stderr_path(n) \in fs THEN n ELSE 0

\* session.runBulkJobs(jt, beginIndex, endIndex, step): the task indices
BulkIndices(beginIndex, endIndex, step) ==
    {i \in beginIndex..endIndex : (i - beginIndex) % step = 0}

\* bulk_range without the shift to one-based indices
bulk_range_zero_based(job_array) ==
    <<job_array[1], job_array[2], job_array[3]>>

\* the arguments run() hands to runBulkJobs for a job_array
bulk_range(job_array) == <<job_array[1] + 1, job_array[2], job_array[3]>>

\* the members of a finite set of integers in increasing order
RECURSIVE SortedSeq(_)
SortedSeq(S) ==
    IF S = {} THEN <<>>
    ELSE LET m == CHOOSE x \in S : \A y \in S : x <= y
         IN  <<m>> \o SortedSeq(S \ {m})

\* wait_reraises without the exemption of "code 24"
wait_reraises_always(outcome) == outcome # "retval"

\* the exception handler around session.wait: re-raise unless the message
\* starts with "code 24"
wait_reraises(outcome) == outcome # "retval" /\ outcome # "code 24"

\* 'retval and retval.exitStatus != 0 and not ignore_errors'
collect_fails(outcome, exitStatus, ignore_errors) ==
    outcome = "retval" /\ exitStatus # 0 /\ ~ignore_errors

\* the return code of a local process never looked at
local_fails_never(returncode, ignore_errors) == FALSE

\* 'process.returncode != 0 and not ignore_errors'
local_fails(returncode, ignore_errors) == returncode # 0 /\ ~ignore_errors

\* the number the PipelineError of the local path reports
local_signal(returncode) == 0 - returncode

NoProcess == [statement |-> <<>>, command |-> <<>>]

NoError == [type |-> "none", signal |-> 0, stderr |-> 0, statement |-> <<>>]

Raise(t) == [type |-> t, signal |-> 0, stderr |-> 0, statement |-> <<>>]

\* ------------------------------------------------------------------------
\* State
\* ------------------------------------------------------------------------

VARIABLES
    PARAMS,          \* the global parameter map
    GLOBAL_SESSION,  \* "None" or the drmaa session
    PARAMS_object,   \* the identity of the object the name PARAMS stands for
    Local_PARAMS,    \* Local.PARAMS: the identity and the items of its object
    pc,              \* where the call of run() stands
    caller_locals,   \* getCallerLocals() of the call
    kwargs,          \* the keyword arguments of the call
    options,         \* the merged options of the call
    job_memory,      \* the memory request of the call
    run_on_cluster,  \* the routing decision of the call
    statement_list,  \* the statements built
    jt,              \* the job template of the call, 0 if none
    job_ids,         \* the jobs submitted by the call, in order
    filenames,       \* the temporary names of the job scripts, in order
    collected,       \* how many jobs the call has collected
    started,         \* how many local processes the call has started
    process,         \* the command of the running local process
    returncode,      \* process.returncode of the last local process
    error,           \* the exception run() raised
    templates,       \* the job templates alive in the session
    jobs,            \* the jobs of the session
    files,           \* the files on disk
    calls,           \* the session calls and process starts made and the
                     \* outcome of every wait, in order
    fn,              \* the helper function called last, "none" if none
    fn_args,         \* the arguments of that call
    fn_result,       \* what that call returned or raised
    main_pc,         \* where main() stands
    main_options,    \* the command line options main() parsed
    session_log,     \* the calls of initialize and exit on sessions, in order
    main_error,      \* the exception main() raised, "none" if none
    rc_pc,           \* where the call of a cluster_runnable function stands
    rc_kwargs,       \* the keyword arguments the caller passed to it
    submit_args,     \* the keyword arguments handed to submit()
    payload,         \* whether the payload file was written, and the
                     \* keyword arguments pickled into it
    payload_reads,   \* how often the payload file was unpickled
    func_call,       \* whether the wrapped function was called, and the
                     \* keyword arguments it was called with
    rc_error,        \* the exception that ended the call, "none" if none
    CONFIG,          \* the module-wide ConfigParser
    ini_files,       \* the configuration files on disk and their options
    gp_calls,        \* how often getParameters was called
    gp_args,         \* the arguments of its last call and the files it read
    gp_default,      \* the list that is the default of its filenames argument
    gp_list,         \* the list a caller keeps and passes as filenames
    gp_flags,        \* the user_ini and default_ini arguments of the callers
    gs_pc,           \* where the call of getStdoutStderr stands
    gs_tries,        \* its tries argument
    gs_x,            \* its countdown x
    gs_checks,       \* how often it has called os.path.exists, per file
    gs_result,       \* what it read, the warnings it logged and whether it
                     \* raised
    workers          \* the calls of run() of the workers of the pool: where
                     \* each stands and what it holds in its local variables

\* the state of a helper function called on its own, and of main()
helper == <<fn, fn_args, fn_result>>
driver == <<main_pc, main_options, session_log, main_error>>
remote == <<rc_pc, rc_kwargs, submit_args, payload, payload_reads, func_call,
            rc_error>>
config == <<CONFIG, ini_files, gp_calls, gp_args, gp_default, gp_list,
           gp_flags>>
output == <<gs_pc, gs_tries, gs_x, gs_checks, gs_result>>

\* the state outside run() and the session
others == <<helper, driver, remote, config, output, workers>>
\* the state outside the helper functions, outside main(), outside a
\* cluster_runnable call and outside getParameters
not_helper == <<driver, remote, config, output, workers>>
not_driver == <<helper, remote, config, output, workers>>
not_remote == <<helper, driver, config, output, workers>>
not_config == <<helper, driver, remote, output, workers>>
not_output == <<helper, driver, remote, config, workers>>

\* how the parameter map is shared with the Local module
sharing == <<PARAMS_object, Local_PARAMS>>

vars == <<PARAMS, GLOBAL_SESSION, sharing, pc, caller_locals, kwargs, options,
          job_memory, run_on_cluster, statement_list, jt, job_ids,
          filenames, collected, started, process, returncode, error,
          templates, jobs, files, calls, others>>

globals == <<PARAMS, GLOBAL_SESSION, sharing>>
inputs == <<caller_locals, kwargs, options, job_memory, run_on_cluster>>
cluster == <<jt, job_ids, filenames, collected, templates, jobs>>
local == <<started, process, returncode>>

\* Local.PARAMS after the object called PARAMS got new items: the same
\* items if it is that object, else the items it had
seen_through(loc, object, items) ==
    IF loc.object = object THEN [loc EXCEPT !.items = items] ELSE loc

\* the call writes into PARAMS itself
params_after_alias(params, written) == written

\* the items of PARAMS after a call has written into its own dictionary:
\* "dict(PARAMS.items())" and "dict(PARAMS.items() + kwargs.items())" give
\* the call a new dictionary, and PARAMS keeps its items
params_after(params, written) == params

\* what a call that holds the dictionary `written` leaves of the globals
call_globals(written) ==
    /\ PARAMS' = params_after(PARAMS, written)
    /\ Local_PARAMS' = seen_through(Local_PARAMS, PARAMS_object,
                                    params_after(PARAMS, written))
    /\ UNCHANGED <<GLOBAL_SESSION, PARAMS_object>>

\* CONFIG = ConfigParser.ConfigParser()
EmptyConfig == [defaults |-> EmptyDict, sections |-> EmptyDict]

\* the workers of the pool of the task engine
Workers == {"worker1", "worker2"}

\* a worker that has not called run(): the local variables of the call
IdleWorker ==
    [pc |-> "idle", statements |-> 0, jt |-> 0, job_ids |-> <<>>,
     filenames |-> <<>>, collected |-> 0, waited |-> {}, touched |-> {}]

\* no helper function, main(), cluster_runnable function or getParameters
\* has been called and every worker is idle; each behaviour calls one helper
\* function, once
InitState ==
    /\ CONFIG = EmptyConfig
    /\ gp_calls = 0
    /\ gp_args = EmptyDict
    /\ gp_default = <<"pipeline.ini">>
    /\ PARAMS_object = 1
    /\ fn = "none"
    /\ fn_args = EmptyDict
    /\ fn_result = EmptyDict
    /\ main_pc = "not called"
    /\ main_options = EmptyDict
    /\ session_log = <<>>
    /\ main_error = "none"
    /\ rc_pc = "not called"
    /\ rc_kwargs = EmptyDict
    /\ submit_args = EmptyDict
    /\ payload = [written |-> FALSE, kwargs |-> EmptyDict]
    /\ payload_reads = 0
    /\ func_call = [called |-> FALSE, kwargs |-> EmptyDict]
    /\ rc_error = "none"
    /\ gs_pc = "not called"
    /\ gs_tries = 0
    /\ gs_x = 0
    /\ gs_checks = [stdout |-> 0, stderr |-> 0]
    /\ gs_result = [stdout |-> "unread", stderr |-> "unread",
                    warnings |-> <<>>, raised |-> "none"]
    /\ workers = [w \in Workers |-> IdleWorker]

\* no configuration file is on disk
InitOthers ==
    /\ InitState
    /\ ini_files = EmptyDict
    /\ gp_list = <<>>
    /\ gp_flags = EmptyDict
    /\ Local_PARAMS = [object |-> 1, items |-> PARAMS]

\* no session, and run() has not been called
InitCall ==
    /\ GLOBAL_SESSION = "None"
    /\ pc = "idle"
    /\ caller_locals = EmptyDict
    /\ kwargs = EmptyDict
    /\ options = EmptyDict
    /\ job_memory = "None"
    /\ run_on_cluster = FALSE
    /\ statement_list = <<>>
    /\ jt = 0
    /\ job_ids = <<>>
    /\ filenames = <<>>
    /\ collected = 0
    /\ started = 0
    /\ process = NoProcess
    /\ returncode = 0
    /\ error = NoError
    /\ templates = {}
    /\ jobs = EmptyDict
    /\ files = {}
    /\ calls = <<>>

Init ==
    /\ PARAMS \in PublishedParams
    /\ InitCall
    /\ InitOthers

\* main(): GLOBAL_SESSION = drmaa.Session(); GLOBAL_SESSION.initialize()
main_initSession ==
    /\ pc = "idle"
    /\ GLOBAL_SESSION = "None"
    /\ GLOBAL_SESSION' = "session"
    /\ UNCHANGED <<PARAMS, sharing, others, pc, inputs, statement_list, cluster, local,
                   error, files, calls>>

\* enter_error letting a legacy marker that does not parse through
enter_error_ignores_memory(hasLegacy, src, mem) ==
    IF ~hasLegacy THEN "KeyError" ELSE "none"

\* the error run() raises before it builds a statement, "none" if none:
\* options["cluster_options"] or options["cluster_queue"] missing, or a
\* mem_free marker the pattern does not match
enter_error(hasLegacy, src, mem) ==
    IF ~hasLegacy THEN "KeyError"
    ELSE IF src = "legacy" /\ mem = "None" THEN "ValueError"
    ELSE "none"

\* run(): merge the options, resolve the memory request, decide the route
run_enter_from(Locals, Kwargs) ==
    /\ pc = "idle"
    /\ \E l \in Locals, k \in Kwargs :
          LET merged == merge_options(PARAMS, l, k)
              hasLegacy == {"cluster_options", "cluster_queue"}
                              \subseteq DOMAIN merged
              o == IF hasLegacy THEN legacy_synonyms(merged) ELSE merged
              src == IF hasLegacy THEN memory_source(PARAMS, o) ELSE "none"
              mem == IF hasLegacy THEN resolve_job_memory(PARAMS, o)
                     ELSE "None"
              err == enter_error(hasLegacy, src, mem)
          IN  /\ caller_locals' = l
              /\ kwargs' = k
              /\ job_memory' = mem
              /\ IF err # "none"
                 THEN /\ options' = o
                      /\ run_on_cluster' = FALSE
                      /\ error' = Raise(err)
                      /\ pc' = "raised"
                 ELSE /\ options' =
                            IF src = "legacy"
                            THEN Update(o, "cluster_options" :>
                                           mem_free_sub(o["cluster_options"]))
                            ELSE o
                      /\ run_on_cluster' =
                            decide_run_on_cluster(o, GLOBAL_SESSION)
                      /\ error' = NoError
                      /\ pc' = "build"
    /\ call_globals(options')
    /\ UNCHANGED <<others, statement_list, cluster, local, files, calls>>

\* run() called by a task of the pipeline
run_enter == run_enter_from(CallerLocals, CallerKwargs)

\* the error of the first statement that fails to build, "none" if all build
build_error(params, o) ==
    LET ts == templates_to_build(o)
        err(i) == buildStatementError(params, Update(o, "statement" :> ts[i]))
    IN  IF ts = <<>> THEN "ValueError"
        ELSE IF \E i \in DOMAIN ts : err(i) # "none"
        THEN err(CHOOSE i \in DOMAIN ts :
                    err(i) # "none" /\ \A j \in 1..(i - 1) : err(j) = "none")
        ELSE "none"

\* options after the build loop: 'options["statement"] = statement' for
\* every statement of the list the loop reached
options_after_build(params, o) ==
    LET ts == o["statements"]
        err(i) == buildStatementError(params, Update(o, "statement" :> ts[i]))
        reached == IF \E i \in DOMAIN ts : err(i) # "none"
                   THEN CHOOSE i \in DOMAIN ts :
                           err(i) # "none"
                           /\ \A j \in 1..(i - 1) : err(j) = "none"
                   ELSE Len(ts)
    IN  IF has_statements(o) THEN Update(o, "statement" :> ts[reached]) ELSE o

\* first_step with the dry run test missing for a statements list
first_step_no_batch_dryrun(o, onCluster) ==
    IF onCluster /\ has_statements(o) THEN "batch_setup"
    ELSE IF is_dryrun(o) THEN "returned"
    ELSE IF onCluster THEN "single_script"
    ELSE "local_popen"

\* the first step after the statements are built
first_step(o, onCluster) ==
    IF is_dryrun(o) THEN "returned"
    ELSE IF onCluster
         THEN IF has_statements(o) THEN "batch_setup" ELSE "single_script"
         ELSE "local_popen"

\* run(): build every statement, then return at once in a dry run
run_build ==
    /\ pc = "build"
    /\ LET ts == templates_to_build(options)
           err == build_error(PARAMS, options)
       IN  /\ options' = options_after_build(PARAMS, options)
           /\ IF err # "none"
              THEN /\ error' = Raise(err)
                   /\ pc' = "raised"
                   /\ UNCHANGED statement_list
              ELSE /\ statement_list' =
                         [i \in DOMAIN ts |->
                             buildStatement(PARAMS,
                                 Update(options, "statement" :> ts[i]))]
                   /\ pc' = first_step(options, run_on_cluster)
                   /\ UNCHANGED error
    /\ call_globals(options')
    /\ UNCHANGED <<others, caller_locals, kwargs, job_memory, run_on_cluster,
                   cluster, local, files, calls>>

\* ------------------------------------------------------------------------
\* run(): the local path
\* ------------------------------------------------------------------------

\* os.environ.get('SHELL', "/bin/bash")
Shells == {"/bin/bash", "/bin/sh"}

\* '"bash" in shell'
IsBash(shell) == shell = "/bin/bash"

\* run(): start the process of the next statement
local_popen ==
    /\ pc = "local_popen"
    /\ LET statement == statement_list[started + 1]
       IN  \E shell \in Shells :
              /\ HasProcessSubstitution(statement) \/ shell = "/bin/bash"
              /\ IF HasProcessSubstitution(statement) /\ ~IsBash(shell)
                 THEN /\ error' = Raise("ValueError")
                      /\ pc' = "raised"
                      /\ UNCHANGED <<local, calls>>
                 ELSE /\ returncode' = returncode
                      /\ process' =
                            LET s == IF HasProcessSubstitution(statement)
                                     THEN <<shell, "-c">> \o statement
                                     ELSE statement
                            IN  [statement |-> s,
                                 command |-> expandStatement(s,
                                     is_ignore_pipe_errors(options))]
                      /\ started' = started + 1
                      /\ calls' = Append(calls, <<"Popen", started + 1>>)
                      /\ pc' = "local_communicate"
                      /\ UNCHANGED error
    /\ UNCHANGED <<globals, others, inputs, statement_list, cluster, files>>

\* run(): the process ends; raise on a non-zero return code
local_communicate ==
    /\ pc = "local_communicate"
    /\ \E rc \in ReturnCodes :
          /\ returncode' = rc
          /\ IF local_fails(rc, is_ignore_errors(options))
             THEN /\ error' = [type |-> "PipelineError",
                               signal |-> local_signal(rc),
                               stderr |-> started,
                               statement |-> process.statement]
                  /\ pc' = "raised"
             ELSE /\ pc' = IF started < Len(statement_list)
                           THEN "local_popen" ELSE "returned"
                  /\ UNCHANGED error
    /\ calls' = Append(calls, <<"communicate", started>>)
    /\ UNCHANGED <<globals, others, inputs, statement_list, cluster, started, process,
                   files>>

\* ------------------------------------------------------------------------
\* run(): the cluster path
\* ------------------------------------------------------------------------

\* setupJob: session.createJobTemplate()
setupJob(next) ==
    /\ jt' = Cardinality(templates) + 1
    /\ templates' = templates \cup {Cardinality(templates) + 1}
    /\ calls' = Append(calls, <<"createJobTemplate", 0>>)
    /\ pc' = next

\* session.deleteJobTemplate(jt), the last statement of run()
deleteJobTemplate ==
    /\ templates' = templates \ {jt}
    /\ calls' = Append(calls, <<"deleteJobTemplate", 0>>)
    /\ pc' = "returned"

\* _collectSingleJobFromCluster for the k-th job of the call, the wait
\* having ended with `outcome`
collectSingleJob(k, outcome, next) ==
    LET id == job_ids[k]
        n == filenames[k]
    IN  /\ calls' = calls \o <<<<"wait", id>>, <<outcome, id>>>>
        /\ IF wait_reraises(outcome)
           THEN /\ error' = Raise("DrmaaError")
                /\ pc' = "raised"
                /\ UNCHANGED <<files, collected>>
           ELSE IF collect_fails(outcome, jobs[id].exitStatus,
                                 is_ignore_errors(options))
           THEN /\ files' = getStdoutStderr_files(files, n)
                /\ error' = [type |-> "PipelineError",
                             signal |-> jobs[id].exitStatus,
                             stderr |-> getStdoutStderr_stderr(files, n),
                             statement |-> statement_list[k]]
                /\ pc' = "raised"
                /\ UNCHANGED collected
           ELSE /\ files' = getStdoutStderr_files(files, n) \ {job_path(n)}
                /\ collected' = k
                /\ pc' = next
                /\ UNCHANGED error

\* after_submit leaving the loop after the first submission
after_submit_first_only(submitted, total) == "batch_synchronize"

\* the submission loop goes on until every statement has been submitted
after_submit(submitted, total) ==
    IF submitted < total THEN "batch_submit" ELSE "batch_synchronize"

\* run(), statements list: jt = setupJob(session, options, ...)
batch_setupJob ==
    /\ pc = "batch_setup"
    /\ setupJob("batch_submit")
    /\ UNCHANGED <<globals, others, inputs, statement_list, job_ids, filenames,
                   collected, jobs, local, error, files>>

\* run(), statements list: write the job script of the next statement and
\* submit it
batch_submit ==
    /\ pc = "batch_submit"
    /\ LET n == Len(filenames) + 1
           id == Len(job_ids) + 1
       IN  /\ files' = files \cup {job_path(n)}
           /\ filenames' = Append(filenames, n)
           /\ job_ids' = Append(job_ids, id)
           /\ jobs' = (id :> [path |-> n, done |-> FALSE, exitStatus |-> 0])
                         @@ jobs
           /\ calls' = calls \o <<<<"buildJobScript", n>>, <<"runJob", id>>>>
           /\ pc' = after_submit(id, Len(statement_list))
    /\ UNCHANGED <<globals, others, inputs, statement_list, jt, collected, templates,
                   local, error>>

\* run(), statements list: session.synchronize(job_ids, WAIT_FOREVER, False)
\* returns once every job of the list has finished
batch_synchronize ==
    /\ pc = "batch_synchronize"
    /\ \A i \in DOMAIN job_ids : jobs[job_ids[i]].done
    /\ calls' = Append(calls, <<"synchronize", 0>>)
    /\ pc' = "batch_collect"
    /\ UNCHANGED <<globals, others, inputs, statement_list, cluster, local, error,
                   files>>

\* run(), statements list: collect the next job, in the order of submission
batch_collect ==
    /\ pc = "batch_collect"
    /\ \E outcome \in WaitOutcomes :
          collectSingleJob(collected + 1, outcome,
              IF collected + 1 < Len(job_ids)
              THEN "batch_collect" ELSE "batch_delete")
    /\ UNCHANGED <<globals, others, inputs, statement_list, jt, job_ids, filenames,
                   templates, jobs, local>>

\* run(), statements list: session.deleteJobTemplate(jt)
batch_deleteJobTemplate ==
    /\ pc = "batch_delete"
    /\ deleteJobTemplate
    /\ UNCHANGED <<globals, others, inputs, statement_list, jt, job_ids, filenames,
                   collected, jobs, local, error, files>>

\* run(), one statement: buildJobScript(statement, job_memory, job_name)
single_buildJobScript ==
    /\ pc = "single_script"
    /\ files' = files \cup {job_path(1)}
    /\ filenames' = <<1>>
    /\ calls' = Append(calls, <<"buildJobScript", 1>>)
    /\ pc' = "single_setup"
    /\ UNCHANGED <<globals, others, inputs, statement_list, jt, job_ids, collected,
                   templates, jobs, local, error>>

\* run(), one statement: jt = setupJob(session, options, ...)
single_setupJob ==
    /\ pc = "single_setup"
    /\ setupJob(IF "job_array" \in DOMAIN options THEN "array_run"
                ELSE "single_run")
    /\ UNCHANGED <<globals, others, inputs, statement_list, job_ids, filenames,
                   collected, jobs, local, error, files>>

\* run(), one statement: job_id = session.runJob(jt)
single_runJob ==
    /\ pc = "single_run"
    /\ job_ids' = <<1>>
    /\ jobs' = (1 :> [path |-> 1, done |-> FALSE, exitStatus |-> 0]) @@ jobs
    /\ calls' = Append(calls, <<"runJob", 1>>)
    /\ pc' = "single_collect"
    /\ UNCHANGED <<globals, others, inputs, statement_list, jt, filenames, collected,
                   templates, local, error, files>>

\* run(), one statement: _collectSingleJobFromCluster; session.wait returns
\* or raises once the job has finished
single_collect ==
    /\ pc = "single_collect"
    /\ jobs[job_ids[1]].done
    /\ \E outcome \in WaitOutcomes :
          collectSingleJob(1, outcome, "single_delete")
    /\ UNCHANGED <<globals, others, inputs, statement_list, jt, job_ids, filenames,
                   templates, jobs, local>>

\* run(), array job: session.runBulkJobs(jt, start + 1, end, increment)
array_runBulkJobs ==
    /\ pc = "array_run"
    /\ LET r == bulk_range(options["job_array"])
           ids == BulkIndices(r[1], r[2], r[3])
       IN  /\ job_ids' = SortedSeq(ids)
           /\ jobs' = [id \in ids |->
                          [path |-> 1, done |-> FALSE, exitStatus |-> 0]]
           /\ calls' = Append(calls, <<"runBulkJobs", Cardinality(ids)>>)
    /\ pc' = "array_synchronize"
    /\ UNCHANGED <<globals, others, inputs, statement_list, jt, filenames, collected,
                   templates, local, error, files>>

\* run(), array job: session.synchronize(job_ids, WAIT_FOREVER, True), then
\* getStdoutStderr; the exit status of no element is looked at and the job
\* script is not unlinked
array_synchronize ==
    /\ pc = "array_synchronize"
    /\ \A i \in DOMAIN job_ids : jobs[job_ids[i]].done
    /\ calls' = Append(calls, <<"synchronize", 0>>)
    /\ files' = getStdoutStderr_files(files, filenames[1])
    /\ collected' = Len(job_ids)
    /\ pc' = "single_delete"
    /\ UNCHANGED <<globals, others, inputs, statement_list, jt, job_ids, filenames,
                   templates, jobs, local, error>>

\* run(), one statement or array job: session.deleteJobTemplate(jt)
single_deleteJobTemplate ==
    /\ pc = "single_delete"
    /\ deleteJobTemplate
    /\ UNCHANGED <<globals, others, inputs, statement_list, jt, job_ids, filenames,
                   collected, jobs, local, error, files>>

\* the cluster: a submitted job finishes with some exit status and its
\* stdout and stderr files appear
job_finish ==
    /\ \E id \in DOMAIN jobs, status \in ExitStatuses :
          /\ ~jobs[id].done
          /\ jobs' = [jobs EXCEPT ![id] = [@ EXCEPT !.done = TRUE,
                                                    !.exitStatus = status]]
          /\ files' = files \cup {stdout_path(jobs[id].path),
                                  stderr_path(jobs[id].path)}
    /\ UNCHANGED <<globals, others, pc, inputs, statement_list, jt, job_ids,
                   filenames, collected, templates, local, error, calls>>

Next ==
    \/ main_initSession
    \/ run_enter
    \/ run_build
    \/ local_popen
    \/ local_communicate
    \/ batch_setupJob
    \/ batch_submit
    \/ batch_synchronize
    \/ batch_collect
    \/ batch_deleteJobTemplate
    \/ single_buildJobScript
    \/ single_setupJob
    \/ single_runJob
    \/ single_collect
    \/ array_runBulkJobs
    \/ array_synchronize
    \/ single_deleteJobTemplate
    \/ job_finish

Spec == Init /\ [][Next]_vars

\* run() called by a task that sets threads, an output file and a memory
\* request
task_enter == run_enter_from(TaskLocals, TaskKwargs)

InitTask ==
    /\ PARAMS \in TaskParams
    /\ InitCall
    /\ InitOthers

NextTask ==
    \/ main_initSession
    \/ task_enter
    \/ run_build
    \/ local_popen
    \/ local_communicate
    \/ batch_setupJob
    \/ batch_submit
    \/ batch_synchronize
    \/ batch_collect
    \/ batch_deleteJobTemplate
    \/ single_buildJobScript
    \/ single_setupJob
    \/ single_runJob
    \/ single_collect
    \/ array_runBulkJobs
    \/ array_synchronize
    \/ single_deleteJobTemplate
    \/ job_finish

SpecTask == InitTask /\ [][NextTask]_vars

\* ------------------------------------------------------------------------
\* The helper functions, called on their own
\* ------------------------------------------------------------------------

\* typed Python values: n is ten times the number for int, float and bool
PyInt(i) == [t |-> "int", n |-> 10 * i, s |-> ""]
PyFloatTenths(k) == [t |-> "float", n |-> k, s |-> ""]
PyBool(b) == [t |-> "bool", n |-> IF b THEN 10 ELSE 0, s |-> ""]
PyStr(x) == [t |-> "str", n |-> 0, s |-> x]
PyNone == [t |-> "none", n |-> 0, s |-> ""]

\* a == b in Python: numbers by value across int, float and bool, strings
\* by text
PyEq(a, b) ==
    IF a.t \in {"int", "float", "bool"} /\ b.t \in {"int", "float", "bool"}
    THEN a.n = b.n
    ELSE a.t = b.t /\ a.s = b.s

\* the values a flag parameter may hold
FlagValues ==
    {PyInt(0), PyInt(1), PyFloatTenths(0), PyFloatTenths(5), PyBool(FALSE),
     PyBool(TRUE), PyNone, PyStr(""), PyStr("false"), PyStr("False"),
     PyStr("0.0"), PyStr("0"), PyStr("true")}

\* the parameter maps the helper functions are called with
CallParams ==
    {Update(HARDCODED_PARAMS, extra) :
        extra \in Cross(Cross(Opt("threads", {"4"}),
                              Opt("sample1.bam.gz_threads", {"6"})),
                        Opt("flag", FlagValues))}

\* isTrue with "False" missing from the false values
isTrue_without_False(params, param, kw) ==
    LET p == IF kw # EmptyDict THEN substituteParameters(params, kw)
             ELSE params
        value == Get(p, param, PyInt(0))
    IN  ~\E x \in {PyInt(0), PyStr(""), PyStr("false")} : PyEq(value, x)

\* isTrue(param, **kwargs): 'value not in (0, "", "false", "False")'
isTrue(params, param, kw) ==
    LET p == IF kw # EmptyDict THEN substituteParameters(params, kw)
             ELSE params
        value == Get(p, param, PyInt(0))
    IN  ~\E x \in {PyInt(0), PyStr(""), PyStr("false"), PyStr("False")} :
            PyEq(value, x)

\* the tokens of a step of a chain: text, @IN@ and @OUT@
In == [kind |-> "in", text |-> "@IN@"]
Out == [kind |-> "out", text |-> "@OUT@"]

\* the tokens of a joined statement: text, the input file, the temporary
\* name "<prefix>_<n>", the separator "; checkpoint ; " and "rm -f <prefix>*"
Tok(kind, text, prefix, n) ==
    [kind |-> kind, text |-> text, prefix |-> prefix, n |-> n]
Checkpoint == Tok("checkpoint", "; checkpoint ;", 0, 0)

\* in_name with the number of the step's own output
in_name_next(x, infile, prefix) ==
    IF x = 0 THEN Tok("file", infile, 0, 0) ELSE Tok("tmp", "", prefix, x + 1)

\* what @IN@ of step x (counted from 0) is replaced with
in_name(x, infile, prefix) ==
    IF x = 0 THEN Tok("file", infile, 0, 0) ELSE Tok("tmp", "", prefix, x)

\* what @OUT@ of step x (counted from 0) is replaced with: pattern % (x + 1)
out_name(x, prefix) == Tok("tmp", "", prefix, x + 1)

\* joinStatements: step x after the two re.sub, strip and the removal of
\* one trailing ";"
join_step(x, statement, infile, prefix) ==
    LET sub == [i \in DOMAIN statement |->
                   IF statement[i].kind = "in" THEN in_name(x, infile, prefix)
                   ELSE IF statement[i].kind = "out" THEN out_name(x, prefix)
                   ELSE Tok("lit", statement[i].text, 0, 0)]
    IN  IF Len(sub) > 0 /\ sub[Len(sub)] = Tok("lit", ";", 0, 0)
        THEN SubSeq(sub, 1, Len(sub) - 1)
        ELSE sub

\* "; checkpoint ; ".join(result)
RECURSIVE join_checkpoint(_)
join_checkpoint(result) ==
    IF Len(result) = 0 THEN <<>>
    ELSE IF Len(result) = 1 THEN result[1]
    ELSE result[1] \o <<Checkpoint>> \o join_checkpoint(Tail(result))

\* joinStatements(statements, infile), prefix being the name that
\* getTempFilename() returned
joinStatements(statements, infile, prefix) ==
    join_checkpoint(
        [x \in DOMAIN statements |->
            join_step(x - 1, statements[x], infile, prefix)]
        \o <<<<Tok("rm", "rm -f", prefix, 0)>>>>)

\* the steps and chains the callers of the model pass to joinStatements
JoinSteps ==
    {<<Lit("step1"), Out>>,
     <<Lit("step2"), In, Out>>,
     <<Lit("mv"), In, Lit("out.txt"), Lit(";")>>}
JoinChains == UNION {[1..n -> JoinSteps] : n \in 0..MaxSteps}

\* the names getTempFilename() may return
TempNames == {1, 2}

\* the file getTempFilename() leaves on disk
temp_path(prefix) == <<"tmp", prefix>>

\* what the callers of the model pass to substituteParameters
SubstKwargs ==
    Cross(Opt("outfile", {"sample1.bam.gz", "other.txt"}),
          Opt("threads", {"8"}))

\* what the callers of the model pass to buildStatement
BuildKwargs ==
    Cross(Cross(Opt("statement", {tplX, tplThreads, tplMalformed, tplEcho}),
                Opt("x", {"hi"})),
          Opt("outfile", {"sample1.bam.gz"}))

\* what the callers of the model pass to isTrue
IsTrueParams == {"flag", "no_such_flag"}
IsTrueKwargs == {EmptyDict} \cup {"flag" :> v : v \in {PyStr("False"), PyInt(1)}}

\* substituteParameters(**kw)
call_substituteParameters ==
    /\ fn = "none"
    /\ \E kw \in SubstKwargs :
          /\ fn' = "substituteParameters"
          /\ fn_args' = kw
          /\ fn_result' =
                IF substituteParametersError(PARAMS, kw) # "none"
                THEN [raised |-> substituteParametersError(PARAMS, kw),
                      value |-> EmptyDict]
                ELSE [raised |-> "none",
                      value |-> substituteParameters(PARAMS, kw)]
          /\ call_globals(IF substituteParametersError(PARAMS, kw) # "none"
                          THEN PARAMS ELSE substituteParameters(PARAMS, kw))
    /\ UNCHANGED <<not_helper, pc, inputs, statement_list, cluster,
                   local, error, files, calls>>

\* buildStatement(**kw)
call_buildStatement ==
    /\ fn = "none"
    /\ \E kw \in BuildKwargs :
          /\ fn' = "buildStatement"
          /\ fn_args' = kw
          /\ fn_result' =
                IF buildStatementError(PARAMS, kw) # "none"
                THEN [raised |-> buildStatementError(PARAMS, kw),
                      value |-> buildStatementMessage(PARAMS, kw)]
                ELSE [raised |-> "none",
                      value |-> buildStatement(PARAMS, kw)]
    /\ UNCHANGED <<globals, not_helper, pc, inputs, statement_list, cluster,
                   local, error, files, calls>>

\* isTrue(param, **kw)
call_isTrue ==
    /\ fn = "none"
    /\ \E param \in IsTrueParams, kw \in IsTrueKwargs :
          /\ fn' = "isTrue"
          /\ fn_args' = [param |-> param, kwargs |-> kw]
          /\ fn_result' = [raised |-> "none",
                           value |-> isTrue(PARAMS, param, kw)]
    /\ UNCHANGED <<globals, not_helper, pc, inputs, statement_list, cluster,
                   local, error, files, calls>>

\* joinStatements(statements, infile)
call_joinStatements ==
    /\ fn = "none"
    /\ \E statements \in JoinChains, prefix \in TempNames :
          /\ fn' = "joinStatements"
          /\ fn_args' = [statements |-> statements, infile |-> "in.txt",
                         prefix |-> prefix]
          /\ fn_result' =
                [raised |-> "none",
                 value |-> joinStatements(statements, "in.txt", prefix)]
          /\ files' = files \cup {temp_path(prefix)}
    /\ UNCHANGED <<globals, not_helper, pc, inputs, statement_list, cluster,
                   local, error, calls>>

InitCalls ==
    /\ PARAMS \in CallParams
    /\ InitCall
    /\ InitOthers

NextCalls ==
    \/ call_substituteParameters
    \/ call_buildStatement
    \/ call_isTrue
    \/ call_joinStatements

SpecCalls == InitCalls /\ [][NextCalls]_vars

\* ------------------------------------------------------------------------
\* main(): the command line, the session and the pipeline action
\* ------------------------------------------------------------------------

\* the state run() works on
run_state == <<pc, inputs, statement_list, cluster, local, error, files, calls>>

\* the pipeline actions of the command line, "bogus" standing for a name
\* main() does not know
PipelineActions ==
    {"make", "show", "svg", "plot", "touch", "regenerate", "check", "debug",
     "dump", "config", "clone", "bogus"}

\* the actions that run or print the pipeline under the handler of
\* RethrownJobError
RuffusActions == {"make", "show", "svg", "plot", "touch", "regenerate"}

\* the options main() reads: the action, --local, --debug, --dry-run and
\* --cluster-queue ("None" when not given)
CommandLines ==
    [pipeline_action : PipelineActions,
     without_cluster : BOOLEAN,
     debug : BOOLEAN,
     dry_run : {"False", "True"},
     cluster_queue : {"None", "high.q"}]

\* the parameter maps getParameters has published before main() is called
LoadedParams == {Update(HARDCODED_PARAMS, ini) : ini \in IniChoices}

\* PARAMS after the command line options were written into it
command_line_overrides(params, o) ==
    Update(Update(params, "dryrun" :> o.dry_run),
           IF o.cluster_queue # "None"
           THEN "cluster_queue" :> o.cluster_queue ELSE EmptyDict)

\* how pipeline_run or pipeline_printout ends: it returns, it raises
\* RethrownJobError for failed tasks, or another exception escapes it
RuffusOutcomes == {"returns", "RethrownJobError", "other"}

\* main(): parse the command line and write its options into PARAMS
main_start_from(Lines) ==
    /\ main_pc = "not called"
    /\ \E o \in Lines :
          /\ main_options' = o
          /\ PARAMS' = command_line_overrides(PARAMS, o)
          /\ Local_PARAMS' = seen_through(Local_PARAMS, PARAMS_object,
                                          command_line_overrides(PARAMS, o))
          /\ main_pc' =
                CASE o.pipeline_action = "check" -> "check"
                  [] o.pipeline_action = "debug" -> "debug"
                  [] o.pipeline_action = "make" -> "make"
                  [] o.pipeline_action \in RuffusActions \ {"make"} -> "ruffus"
                  [] o.pipeline_action \in {"dump", "config", "clone"} ->
                        "print"
                  [] OTHER -> "unknown"
    /\ UNCHANGED <<GLOBAL_SESSION, PARAMS_object, session_log, main_error,
                   not_driver, run_state>>

main_start == main_start_from(CommandLines)

\* main(), action check: list the requirements, E.Stop() and return
main_check ==
    /\ main_pc = "check"
    /\ main_pc' = "returned"
    /\ UNCHANGED <<globals, main_options, session_log, main_error,
                   not_driver, run_state>>

\* main(), action debug: open a session and call the method named; the
\* session is not exited
main_debug ==
    /\ main_pc = "debug"
    /\ GLOBAL_SESSION' = "session"
    /\ session_log' = Append(session_log, "initialize")
    /\ \E raises \in BOOLEAN :
          IF raises
          THEN main_pc' = "raised" /\ main_error' = "method error"
          ELSE main_pc' = "returned" /\ UNCHANGED main_error
    /\ UNCHANGED <<PARAMS, sharing, main_options, not_driver, run_state>>

\* main(), action make: unless --local was given, open the session
main_make_begin ==
    /\ main_pc = "make"
    /\ IF ~main_options.without_cluster
       THEN /\ GLOBAL_SESSION' = "session"
            /\ session_log' = Append(session_log, "initialize")
       ELSE UNCHANGED <<GLOBAL_SESSION, session_log>>
    /\ main_pc' = "pipeline_run"
    /\ UNCHANGED <<PARAMS, sharing, main_options, main_error, not_driver,
                   run_state>>

\* main(), action make: pipeline_run(...)
main_pipeline_run ==
    /\ main_pc = "pipeline_run"
    /\ \E outcome \in RuffusOutcomes :
          CASE outcome = "returns" ->
                  main_pc' = "make_end" /\ UNCHANGED main_error
            [] outcome = "RethrownJobError" ->
                  main_pc' = "handler" /\ UNCHANGED main_error
            [] OTHER ->
                  main_pc' = "raised" /\ main_error' = "other"
    /\ UNCHANGED <<globals, main_options, session_log, not_driver, run_state>>

\* main(), action make: 'if GLOBAL_SESSION is not None:
\* GLOBAL_SESSION.exit()', then E.Stop()
main_make_end ==
    /\ main_pc = "make_end"
    /\ session_log' = IF GLOBAL_SESSION # "None"
                      THEN Append(session_log, "exit") ELSE session_log
    /\ main_pc' = "returned"
    /\ UNCHANGED <<globals, main_options, main_error, not_driver, run_state>>

\* main(), actions show, svg, plot, touch and regenerate
main_ruffus ==
    /\ main_pc = "ruffus"
    /\ \E outcome \in RuffusOutcomes :
          CASE outcome = "returns" ->
                  main_pc' = "returned" /\ UNCHANGED main_error
            [] outcome = "RethrownJobError" ->
                  main_pc' = "handler" /\ UNCHANGED main_error
            [] OTHER ->
                  main_pc' = "raised" /\ main_error' = "other"
    /\ UNCHANGED <<globals, main_options, session_log, not_driver, run_state>>

\* main(): the handler of RethrownJobError logs the failed tasks and
\* raises ValueError, or raises the error again with --debug
main_handler ==
    /\ main_pc = "handler"
    /\ main_error' = IF main_options.debug THEN "RethrownJobError"
                     ELSE "ValueError"
    /\ main_pc' = "raised"
    /\ UNCHANGED <<globals, main_options, session_log, not_driver, run_state>>

\* main(), actions dump, config and clone
main_print ==
    /\ main_pc = "print"
    /\ main_pc' = "returned"
    /\ UNCHANGED <<globals, main_options, session_log, main_error,
                   not_driver, run_state>>

\* main(), any other action: ValueError("unknown pipeline action")
main_unknown ==
    /\ main_pc = "unknown"
    /\ main_error' = "ValueError"
    /\ main_pc' = "raised"
    /\ UNCHANGED <<globals, main_options, session_log, not_driver, run_state>>

InitMain ==
    /\ PARAMS \in LoadedParams
    /\ InitCall
    /\ InitOthers

NextMain ==
    \/ main_start
    \/ main_check
    \/ main_debug
    \/ main_make_begin
    \/ main_pipeline_run
    \/ main_make_end
    \/ main_ruffus
    \/ main_handler
    \/ main_print
    \/ main_unknown

SpecMain == InitMain /\ [][NextMain]_vars

\* ------------------------------------------------------------------------
\* cluster_runnable, _pickle_args and run_pickled
\* ------------------------------------------------------------------------

\* dictionary d without the keys of K
Without(d, K) == [k \in DOMAIN d \ K |-> d[k]]

\* dictionary d cut down to the keys of K
Only(d, K) == [k \in DOMAIN d \cap K |-> d[k]]

\* _pickle_args: the keyword arguments that go to submit()
use_args == {"to_cluster", "logfile", "job_options", "job_queue",
             "job_threads", "job_memory"}

\* the keyword parameters of submit()
submit_parameters == {"params", "infiles", "outfiles", "to_cluster",
                      "logfile", "job_options", "job_threads", "job_memory"}

\* the keys submit_function deletes before it calls the function itself
in_process_removed == {"submit", "job_options", "job_queue"}

\* the payload file of the call
args_file == <<"args", 1>>

\* the keyword arguments a caller passes to the decorated function
RemoteKwargs ==
    Cross(Cross(Cross(Opt("submit", {"True", "False"}),
                      Opt("job_memory", {"4G"})),
                Cross(Opt("job_queue", {"high.q"}),
                      Opt("job_options", {"-l h_rt=1"}))),
          Cross(Opt("to_cluster", {"False"}), Opt("x", {"1"})))

\* submit_function(**kwargs): with submit true pickle the arguments and
\* call submit(), else strip three keys and call the function
cluster_runnable_call ==
    /\ rc_pc = "not called"
    /\ \E kw \in RemoteKwargs :
          /\ rc_kwargs' = kw
          /\ IF "submit" \in DOMAIN kw /\ Truthy(kw["submit"])
             THEN LET rest == Without(kw, {"submit"})
                  IN  /\ submit_args' = Only(rest, use_args)
                      /\ payload' = [written |-> TRUE,
                                     kwargs |-> Without(rest, use_args)]
                      /\ files' = files \cup {args_file}
                      /\ UNCHANGED func_call
                      /\ IF DOMAIN Only(rest, use_args)
                               \subseteq submit_parameters
                         THEN rc_pc' = "submitted" /\ UNCHANGED rc_error
                         ELSE rc_pc' = "raised" /\ rc_error' = "TypeError"
             ELSE /\ func_call' =
                        [called |-> TRUE,
                         kwargs |-> Without(kw, in_process_removed)]
                  /\ rc_pc' = "in process"
                  /\ UNCHANGED <<submit_args, payload, files, rc_error>>
    /\ UNCHANGED <<globals, not_remote, payload_reads, pc, inputs,
                   statement_list, cluster, local, error, calls>>

\* the function called in process returns or raises
in_process_function ==
    /\ rc_pc = "in process"
    /\ \E raises \in BOOLEAN :
          IF raises
          THEN rc_pc' = "raised" /\ rc_error' = "function error"
          ELSE rc_pc' = "returned" /\ UNCHANGED rc_error
    /\ UNCHANGED <<globals, not_remote, rc_kwargs, submit_args, payload,
                   payload_reads, func_call, run_state>>

\* run_pickled, in the job that submit() dispatched: import the module,
\* look the function up and unpickle the arguments
run_pickled_load ==
    /\ rc_pc = "submitted"
    /\ \E found \in BOOLEAN :
          IF found
          THEN /\ payload_reads' = payload_reads + 1
               /\ func_call' = [called |-> TRUE, kwargs |-> payload.kwargs]
               /\ rc_pc' = "function"
               /\ UNCHANGED rc_error
          ELSE /\ rc_pc' = "raised"
               /\ rc_error' = "AttributeError"
               /\ UNCHANGED <<payload_reads, func_call>>
    /\ UNCHANGED <<globals, not_remote, rc_kwargs, submit_args, payload,
                   run_state>>

\* run_pickled: function(*args, **kwargs), then os.unlink(args_file)
run_pickled_function ==
    /\ rc_pc = "function"
    /\ \E raises \in BOOLEAN :
          IF raises
          THEN /\ rc_pc' = "raised"
               /\ rc_error' = "function error"
               /\ UNCHANGED files
          ELSE /\ files' = files \ {args_file}
               /\ rc_pc' = "returned"
               /\ UNCHANGED rc_error
    /\ UNCHANGED <<globals, not_remote, rc_kwargs, submit_args, payload,
                   payload_reads, func_call, pc, inputs, statement_list,
                   cluster, local, error, calls>>

InitRemote ==
    /\ PARAMS \in PublishedParams
    /\ InitCall
    /\ InitOthers

NextRemote ==
    \/ cluster_runnable_call
    \/ in_process_function
    \/ run_pickled_load
    \/ run_pickled_function

SpecRemote == InitRemote /\ [][NextRemote]_vars

\* ------------------------------------------------------------------------
\* getParameters and configToDictionary
\* ------------------------------------------------------------------------

\* an option of a configuration file: "[section] key = ..."
Option(section, key) == [section |-> section, key |-> key]

\* the configuration files besides those a caller names: the default of the
\* installation and ~/.cgat
DefaultIni == "configuration/pipeline.ini"
UserIni == "~/.cgat"

\* the disks of the model: every file that exists, with its options; the
\* value of every option of a file is the name of the file
FileSystems ==
    {(DefaultIni :> d) @@ u @@ ("pipeline.ini" :> a)
        @@ ("extra.ini" :> {Option("general", "x")}) :
        d \in {{}, {Option("DEFAULT", "x")},
                {Option("general", "x"), Option("cluster", "queue")}},
        u \in {EmptyDict, UserIni :> {Option("general", "x")}},
        a \in SUBSET {Option("general", "x")}}

\* ConfigParser.read of one file: the options under [DEFAULT] go to the
\* defaults, the others to their section; a later value replaces an earlier
read_file(cfg, name, content) ==
    LET keys(sec) == {o.key : o \in {c \in content : c.section = sec}}
        named == {o.section : o \in content} \ {"DEFAULT"}
    IN  [defaults |-> Update(cfg.defaults, [k \in keys("DEFAULT") |-> name]),
         sections |->
            [sec \in DOMAIN cfg.sections \cup named |->
                Update(IF sec \in DOMAIN cfg.sections
                       THEN cfg.sections[sec] ELSE EmptyDict,
                       [k \in keys(sec) |-> name])]]

\* CONFIG.read(filenames): the files in list order, a missing file skipped
RECURSIVE read_files(_, _, _)
read_files(cfg, names, disk) ==
    IF names = <<>> THEN cfg
    ELSE read_files(IF Head(names) \in DOMAIN disk
                    THEN read_file(cfg, Head(names), disk[Head(names)])
                    ELSE cfg,
                    Tail(names), disk)

\* "%s_%s" % (section, key) for the sections and keys of the model
Prefixed(section, key) ==
    CASE section = "general" /\ key = "x" -> "general_x"
      [] section = "cluster" /\ key = "x" -> "cluster_x"
      [] section = "cluster" /\ key = "queue" -> "cluster_queue"
      [] section = "general" /\ key = "queue" -> "general_queue"
      [] OTHER -> "other"

\* config.items(section): the defaults with the section's own options over
\* them
config_items(cfg, section) == Update(cfg.defaults, cfg.sections[section])

\* configToDictionary(config): every option of every section under
\* <section>_<key>, the options of [general] under <key> as well, then the
\* defaults under <key>
configToDictionary(cfg) ==
    LET pairs == {Option(sec, k) : sec \in DOMAIN cfg.sections, k \in {"x", "queue"}}
        present == {o \in pairs : o.key \in DOMAIN config_items(cfg, o.section)}
        prefixed == [n \in {Prefixed(o.section, o.key) : o \in present} |->
                        LET o == CHOOSE o \in present :
                                     Prefixed(o.section, o.key) = n
                        IN  config_items(cfg, o.section)[o.key]]
        general == IF "general" \in DOMAIN cfg.sections
                   THEN config_items(cfg, "general") ELSE EmptyDict
    IN  Update(Update(prefixed, general), cfg.defaults)

\* the list after "filenames.insert(0, fn)" for ~/.cgat if it exists and
\* "filenames.insert(0, ...)" for the default of the installation: the list
\* CONFIG.read is given
files_to_read(names, user_ini, default_ini, disk) ==
    (IF default_ini THEN <<DefaultIni>> ELSE <<>>)
    \o (IF user_ini /\ UserIni \in DOMAIN disk THEN <<UserIni>> ELSE <<>>)
    \o names

\* the lists callers keep for the filenames argument
CallerLists == {<<"pipeline.ini", "extra.ini">>, <<"extra.ini", "pipeline.ini">>}

\* the user_ini and default_ini arguments the callers of one pipeline pass
CallerFlags == [user_ini : BOOLEAN, default_ini : BOOLEAN]

\* what else a caller passes to getParameters: its list or no filenames
\* argument, defaults, and only_import or what stands for it when it is None
GetParametersArgs ==
    [list : {"caller", "default"},
     defaults : {EmptyDict,
                 ("x" :> "defaults") @@ ("cluster_queue" :> "defaults")},
     only_import : BOOLEAN]

\* "if only_import: d = collections.defaultdict(str); d.update(PARAMS);
\* PARAMS = d": the identity of the object called PARAMS afterwards
rebind(object, only_import) == IF only_import THEN object + 1 ELSE object

\* PARAMS replaced by the hard-coded parameters, the defaults and p
update_params_replace(params, defaults, p) ==
    Update(Update(HARDCODED_PARAMS, defaults), p)

\* PARAMS.update(HARDCODED_PARAMS); PARAMS.update(defaults);
\* PARAMS.update(p)
update_params(params, defaults, p) ==
    Update(Update(Update(params, HARDCODED_PARAMS), defaults), p)

\* getParameters(filenames, defaults, user_ini, default_ini, only_import):
\* bind PARAMS to a copy if only_import, insert the standard files into the
\* filenames list, read the files into CONFIG and update PARAMS with the
\* hard-coded parameters, the defaults and the dictionary of CONFIG, in that
\* order. The interpolation of cmd-farm and cmd-run and the expansion of the
\* "...dir" parameters touch no key of the model.
getParameters ==
    /\ gp_calls < MaxCalls
    /\ \E a \in GetParametersArgs :
          LET names == IF a.list = "caller" THEN gp_list ELSE gp_default
              read == files_to_read(names, gp_flags.user_ini,
                                    gp_flags.default_ini, ini_files)
              cfg == read_files(CONFIG, read, ini_files)
              items == update_params(PARAMS, a.defaults,
                                     configToDictionary(cfg))
          IN  /\ CONFIG' = cfg
              /\ PARAMS' = items
              /\ PARAMS_object' = rebind(PARAMS_object, a.only_import)
              /\ Local_PARAMS' =
                    seen_through(Local_PARAMS,
                                 rebind(PARAMS_object, a.only_import), items)
              /\ gp_args' = [list |-> a.list, names |-> names,
                             defaults |-> a.defaults, read |-> read]
              /\ IF a.list = "caller"
                 THEN gp_list' = read /\ UNCHANGED gp_default
                 ELSE gp_default' = read /\ UNCHANGED gp_list
    /\ gp_calls' = gp_calls + 1
    /\ UNCHANGED <<GLOBAL_SESSION, ini_files, gp_flags, not_config, run_state>>

\* the command lines that make the pipeline on the cluster
MakeLines ==
    {o \in CommandLines :
        o.pipeline_action = "make" /\ ~o.debug /\ ~o.without_cluster}

\* main() of a pipeline that calls getParameters
make_start == main_start_from(MakeLines)

\* the module has been imported: PARAMS = {}, Local.PARAMS = PARAMS, some
\* files on disk
InitParams ==
    /\ PARAMS = EmptyDict
    /\ Local_PARAMS = [object |-> 1, items |-> EmptyDict]
    /\ ini_files \in FileSystems
    /\ gp_list \in CallerLists
    /\ gp_flags \in CallerFlags
    /\ InitState
    /\ InitCall

NextParams ==
    \/ getParameters
    \/ make_start

SpecParams == InitParams /\ [][NextParams]_vars

\* ------------------------------------------------------------------------
\* getStdoutStderr, step by step
\* ------------------------------------------------------------------------

\* the output files of the job the call is about
the_stdout == stdout_path(1)
the_stderr == stderr_path(1)

\* getStdoutStderr(stdout_path, stderr_path, tries): x = tries
getStdoutStderr_call ==
    /\ gs_pc = "not called"
    /\ \E tries \in 0..MaxTries :
          /\ gs_tries' = tries
          /\ gs_x' = tries
    /\ gs_pc' = "wait stdout"
    /\ UNCHANGED <<globals, run_state, gs_checks, gs_result, not_output>>

\* one round of "while x >= 0": leave the loop if the file exists, else
\* sleep and count x down; the loop ends when x is below 0
exists_round(path, name, next) ==
    /\ gs_x >= 0
    /\ gs_checks' = [gs_checks EXCEPT ![name] = @ + 1]
    /\ IF path \in files \/ gs_x - 1 < 0
       THEN gs_pc' = next /\ gs_x' = gs_tries
       ELSE gs_pc' = gs_pc /\ gs_x' = gs_x - 1
    /\ UNCHANGED <<globals, run_state, gs_tries, gs_result, not_output>>

getStdoutStderr_wait_stdout ==
    /\ gs_pc = "wait stdout"
    /\ exists_round(the_stdout, "stdout", "wait stderr")

getStdoutStderr_wait_stderr ==
    /\ gs_pc = "wait stderr"
    /\ exists_round(the_stderr, "stderr", "open stdout")

\* open(path, "r").readlines(), an IOError logged as a warning and the
\* output taken as empty
open_file(path, name, next) ==
    /\ IF path \in files
       THEN gs_result' = [gs_result EXCEPT ![name] = "lines"]
       ELSE gs_result' = [gs_result EXCEPT
                            ![name] = "empty",
                            !.warnings = Append(@, "could not open stdout")]
    /\ gs_pc' = next
    /\ UNCHANGED <<globals, run_state, gs_tries, gs_x, gs_checks, not_output>>

getStdoutStderr_open_stdout ==
    /\ gs_pc = "open stdout"
    /\ open_file(the_stdout, "stdout", "open stderr")

getStdoutStderr_open_stderr ==
    /\ gs_pc = "open stderr"
    /\ open_file(the_stderr, "stderr", "unlink")

\* try: os.unlink(stdout_path); os.unlink(stderr_path); except OSError:
\* pass -- and return
getStdoutStderr_unlink ==
    /\ gs_pc = "unlink"
    /\ files' = IF the_stdout \in files
                THEN files \ {the_stdout, the_stderr}
                ELSE files
    /\ gs_pc' = "returned"
    /\ UNCHANGED <<globals, pc, inputs, statement_list, cluster, local, error,
                   calls, gs_tries, gs_x, gs_checks, gs_result, not_output>>

\* the lag the function allows for: an output file of the job becomes
\* visible on the shared file system, before the call or while it is under
\* way
file_appears ==
    /\ gs_pc # "returned"
    /\ \E path \in {the_stdout, the_stderr} \ files :
          files' = files \cup {path}
    /\ UNCHANGED <<globals, pc, inputs, statement_list, cluster, local, error,
                   calls, others>>

\* a job has ended and none of its output files is visible yet
InitOutput ==
    /\ PARAMS = EmptyDict
    /\ InitCall
    /\ InitOthers

NextOutput ==
    \/ getStdoutStderr_call
    \/ getStdoutStderr_wait_stdout
    \/ getStdoutStderr_wait_stderr
    \/ getStdoutStderr_open_stdout
    \/ getStdoutStderr_open_stderr
    \/ getStdoutStderr_unlink
    \/ file_appears

SpecOutput == InitOutput /\ [][NextOutput]_vars

\* ------------------------------------------------------------------------
\* run() on the cluster, called by the workers of the pool at the same time
\* ------------------------------------------------------------------------

\* the single call of run() and all that is outside the workers
not_workers == <<globals, pc, inputs, statement_list, jt, job_ids, filenames,
                 collected, local, error, calls, helper, driver, remote,
                 config, output>>

\* the temporary names handed out so far, and the next one:
\* tempfile.NamedTemporaryFile never gives a name that exists
UsedNames ==
    UNION {{workers[v].filenames[i] : i \in DOMAIN workers[v].filenames} :
             v \in Workers}
getTempFile == Cardinality(UsedNames) + 1

\* the identifier session.runJob gives to the next job
next_job_id == Cardinality(DOMAIN jobs) + 1

\* the job template session.createJobTemplate returns next
next_template == Cardinality({v \in Workers : workers[v].jt # 0}) + 1

\* session.wait and session.synchronize return without waiting
job_ended_at_once(js, id) == TRUE

\* session.wait(job_id, TIMEOUT_WAIT_FOREVER) and session.synchronize(
\* job_ids, TIMEOUT_WAIT_FOREVER, ...) block until the job has finished
job_ended(js, id) == js[id].done

\* worker w calls run() with one statement (0) or a list of statements,
\* cluster use being enabled
worker_run(w) ==
    /\ workers[w].pc = "idle"
    /\ GLOBAL_SESSION # "None"
    /\ \E k \in 0..MaxBatch :
          workers' = [workers EXCEPT
                        ![w].statements = k,
                        ![w].pc = IF k = 0 THEN "single_script"
                                  ELSE "batch_setup"]
    /\ UNCHANGED <<not_workers, templates, jobs, files>>

\* one statement: buildJobScript(statement, job_memory, job_name)
worker_buildJobScript(w) ==
    /\ workers[w].pc = "single_script"
    /\ files' = files \cup {job_path(getTempFile)}
    /\ workers' = [workers EXCEPT ![w].filenames = <<getTempFile>>,
                                  ![w].pc = "single_setup"]
    /\ UNCHANGED <<not_workers, templates, jobs>>

\* jt = setupJob(session, options, job_memory, job_name)
worker_setupJob(w) ==
    /\ workers[w].pc \in {"single_setup", "batch_setup"}
    /\ templates' = templates \cup {next_template}
    /\ workers' = [workers EXCEPT
                     ![w].jt = next_template,
                     ![w].pc = IF workers[w].pc = "single_setup"
                               THEN "single_run" ELSE "batch_submit"]
    /\ UNCHANGED <<not_workers, jobs, files>>

\* one statement: job_id = session.runJob(jt)
worker_runJob(w) ==
    /\ workers[w].pc = "single_run"
    /\ jobs' = (next_job_id :> [path |-> workers[w].filenames[1],
                               done |-> FALSE, exitStatus |-> 0]) @@ jobs
    /\ workers' = [workers EXCEPT ![w].job_ids = <<next_job_id>>,
                                  ![w].pc = "collect"]
    /\ UNCHANGED <<not_workers, templates, files>>

\* statements list: write the job script of the next statement and submit
\* it
worker_batch_submit(w) ==
    /\ workers[w].pc = "batch_submit"
    /\ files' = files \cup {job_path(getTempFile)}
    /\ jobs' = (next_job_id :> [path |-> getTempFile, done |-> FALSE,
                               exitStatus |-> 0]) @@ jobs
    /\ workers' = [workers EXCEPT
                     ![w].filenames = Append(@, getTempFile),
                     ![w].job_ids = Append(@, next_job_id),
                     ![w].pc = after_submit(Len(workers[w].job_ids) + 1,
                                            workers[w].statements)]
    /\ UNCHANGED <<not_workers, templates>>

\* statements list: session.synchronize(job_ids, WAIT_FOREVER, False)
worker_synchronize(w) ==
    /\ workers[w].pc = "batch_synchronize"
    /\ \A i \in DOMAIN workers[w].job_ids :
          job_ended(jobs, workers[w].job_ids[i])
    /\ workers' = [workers EXCEPT ![w].pc = "collect"]
    /\ UNCHANGED <<not_workers, templates, jobs, files>>

\* _collectSingleJobFromCluster for the next job of the call: wait for it,
\* read and unlink its stdout and stderr, raise if it failed, else unlink
\* its job script
worker_collect(w) ==
    /\ workers[w].pc = "collect"
    /\ LET k == workers[w].collected + 1
           id == workers[w].job_ids[k]
           n == workers[w].filenames[k]
           fails == collect_fails("retval", jobs[id].exitStatus, FALSE)
       IN  /\ job_ended(jobs, id)
           /\ files' = IF fails THEN getStdoutStderr_files(files, n)
                       ELSE getStdoutStderr_files(files, n) \ {job_path(n)}
           /\ workers' = [workers EXCEPT
                 ![w].waited = @ \cup {id},
                 ![w].touched = @ \cup {stdout_path(n), stderr_path(n)}
                                  \cup (IF fails THEN {} ELSE {job_path(n)}),
                 ![w].collected = IF fails THEN @ ELSE k,
                 ![w].pc = IF fails THEN "raised"
                           ELSE IF k < Len(workers[w].job_ids)
                           THEN "collect" ELSE "delete"]
    /\ UNCHANGED <<not_workers, templates, jobs>>

\* session.deleteJobTemplate(jt), and run() returns
worker_deleteJobTemplate(w) ==
    /\ workers[w].pc = "delete"
    /\ templates' = templates \ {workers[w].jt}
    /\ workers' = [workers EXCEPT ![w].pc = "returned"]
    /\ UNCHANGED <<not_workers, jobs, files>>

\* no session yet, and no worker has called run()
InitWorkers ==
    /\ PARAMS = HARDCODED_PARAMS
    /\ InitCall
    /\ InitOthers

NextWorkers ==
    \/ main_initSession
    \/ \E w \in Workers : worker_run(w)
    \/ \E w \in Workers : worker_buildJobScript(w)
    \/ \E w \in Workers : worker_setupJob(w)
    \/ \E w \in Workers : worker_runJob(w)
    \/ \E w \in Workers : worker_batch_submit(w)
    \/ \E w \in Workers : worker_synchronize(w)
    \/ \E w \in Workers : worker_collect(w)
    \/ \E w \in Workers : worker_deleteJobTemplate(w)
    \/ job_finish

SpecWorkers == InitWorkers /\ [][NextWorkers]_vars

\* ------------------------------------------------------------------------
\* Vocabulary of the properties
\* ------------------------------------------------------------------------

\* the call of run() has ended
Ended == pc \in {"returned", "raised"}

\* the positions of the calls of one kind
Positions(op) == {p \in DOMAIN calls : calls[p][1] = op}

\* the steps of the three cluster routes and of the local route
BatchSteps == {"batch_setup", "batch_submit", "batch_synchronize",
               "batch_collect", "batch_delete"}
SingleSteps == {"single_script", "single_setup", "single_run",
                "single_collect", "array_run", "array_synchronize",
                "single_delete"}
LocalSteps == {"local_popen", "local_communicate"}

\* the call went through a cluster route, or through the local route
TookCluster ==
    \/ pc \in BatchSteps \cup SingleSteps
    \/ Positions("createJobTemplate") \cup Positions("buildJobScript")
          \cup Positions("runJob") \cup Positions("runBulkJobs") # {}
TookLocal == pc \in LocalSteps \/ Positions("Popen") # {}

\* the route the call is on
OnBatch == run_on_cluster /\ has_statements(options)
OnArray == run_on_cluster /\ ~has_statements(options)
              /\ "job_array" \in DOMAIN options
OnSingle == run_on_cluster /\ ~has_statements(options)
               /\ "job_array" \notin DOMAIN options

\* the three conditions of the cluster route, read off the state
ClusterWanted ==
    /\ GLOBAL_SESSION # "None"
    /\ ("to_cluster" \in DOMAIN options => Truthy(options["to_cluster"]))
    /\ ~Truthy(Get(options, "without_cluster", "None"))

\* ------------------------------------------------------------------------
\* Properties
\* ------------------------------------------------------------------------

\* C1: run() takes the cluster path if and only if GLOBAL_SESSION is not
\* None, the merged options do not disable cluster use (to_cluster absent or
\* truthy) and without_cluster is falsy; in every other combination it takes
\* the local path and neither creates a job template nor submits a job.
C1_ClusterIffAllThree ==
    /\ TookCluster => ClusterWanted
    /\ TookLocal => ~ClusterWanted
    /\ (pc \in BatchSteps \cup SingleSteps \cup LocalSteps) =>
          (ClusterWanted <=> pc \in BatchSteps \cup SingleSteps)
    /\ (pc # "idle" /\ ~ClusterWanted) =>
          /\ Positions("createJobTemplate") = {}
          /\ Positions("runJob") \cup Positions("runBulkJobs") = {}
          /\ templates = {}
          /\ jobs = EmptyDict

\* C1 witness: a call with without_cluster set in PARAMS to a false value and
\* to_cluster passed as true has submitted a job
C1_Witness ==
    /\ pc = "returned"
    /\ Positions("runJob") # {}
    /\ "without_cluster" \in DOMAIN PARAMS
    /\ "to_cluster" \in DOMAIN kwargs

\* C2: in a ClusterBatch dispatch where errors are not ignored and a job
\* exits nonzero, every job of the cohort is collected and its job script
\* removed before the exception is raised: when run() raises, no job of the
\* batch is uncollected and no job script of the batch is on disk.
C2_BatchCleanedBeforeRaise ==
    (OnBatch /\ pc = "raised" /\ error.type = "PipelineError") =>
        /\ collected = Len(job_ids)
        /\ \A k \in DOMAIN filenames : job_path(filenames[k]) \notin files

\* C3: every job script created by a ClusterSingle or ClusterArray dispatch
\* is deleted after result collection, on success and on failure: once run()
\* has returned or raised, the job script it created no longer exists.
C3_JobScriptDeleted ==
    ((OnSingle \/ OnArray) /\ Ended
         /\ error.type \in {"none", "PipelineError"}
         /\ Positions("synchronize") \cup Positions("wait") # {}) =>
        \A k \in DOMAIN filenames : job_path(filenames[k]) \notin files

\* C4: a ClusterArray dispatch fails like a single cluster job: if an element
\* of the array job exits nonzero and ignore_errors is not set, run() raises
\* an execution error; with ignore_errors set it returns normally.
C4_ArrayFailureRaises ==
    (OnArray /\ Ended /\ Positions("synchronize") # {}) =>
        IF (\E id \in DOMAIN jobs : jobs[id].exitStatus # 0)
           /\ ~is_ignore_errors(options)
        THEN pc = "raised" /\ error.type = "PipelineError"
        ELSE pc = "returned"

\* C5: local dispatch of one statement: a nonzero exit code with
\* ignore_errors false raises a PipelineError that carries the exit code
\* (1 for `exit 1`), the captured stderr and the statement; with
\* ignore_errors true run() returns normally for every exit code.
C5_LocalErrorCarriesExitCode ==
    (~run_on_cluster /\ ~has_statements(options) /\ Ended
         /\ Positions("communicate") # {}) =>
        IF returncode # 0 /\ ~is_ignore_errors(options)
        THEN /\ pc = "raised"
             /\ error.type = "PipelineError"
             /\ (returncode > 0 => error.signal = returncode)
             /\ error.stderr = started
             /\ error.statement = process.statement
        ELSE pc = "returned"

\* the dry run switch, read off the options
DryRunWanted == Truthy(Get(options, "dryrun", "False"))

\* every placeholder of a template names a key of the options
Buildable(t) ==
    \A i \in DOMAIN t : t[i].kind = "ph" => t[i].text \in DOMAIN options

\* C6: with dryrun enabled, on every route run() still builds every
\* statement, so that a templating error is raised, but it never starts a
\* local process, never writes a job script, never creates a job template
\* and never submits a job.
C6_DryRunStartsNothing ==
    (DryRunWanted /\ pc # "idle") =>
        /\ calls = <<>>
        /\ files = {}
        /\ templates = {}
        /\ jobs = EmptyDict
        /\ pc \in {"build", "returned", "raised"}
        /\ pc = "returned" =>
              /\ Len(statement_list) = Len(templates_to_build(options))
              /\ \A i \in DOMAIN statement_list :
                    Buildable(templates_to_build(options)[i])

\* C6 witness: a dry run of a list of two statements on the cluster route
\* has returned
C6_Witness ==
    /\ DryRunWanted
    /\ pc = "returned"
    /\ OnBatch
    /\ Len(statement_list) = 2

JobArray == options["job_array"]

\* C8 as stated: an array job (start, end, step) is one bulk job over the
\* one-based closed range start+1..end with that step, and (0, 10, 2) gives
\* six job indices.
C8_SixIndices ==
    (OnArray /\ Positions("runBulkJobs") # {}) =>
        /\ DOMAIN jobs \subseteq (JobArray[1] + 1)..JobArray[2]
        /\ JobArray = <<0, 10, 2>> => Cardinality(DOMAIN jobs) = 6

\* C8: an array job (start, end, step) is submitted as one bulk job over the
\* one-based closed range start+1..end with that step: its job indices are
\* the zero-based logical indices start, start+step, ... below end, each
\* plus one; (0, 10, 2) gives the five indices 1, 3, 5, 7, 9 for the logical
\* indices 0, 2, 4, 6, 8.
C8_OneBasedClosedRange ==
    (OnArray /\ Positions("runBulkJobs") # {}) =>
        LET logical == {z \in JobArray[1]..(JobArray[2] - 1) :
                           (z - JobArray[1]) % JobArray[3] = 0}
        IN  /\ Cardinality(Positions("runBulkJobs")) = 1
            /\ DOMAIN jobs = {z + 1 : z \in logical}
            /\ Len(job_ids) = Cardinality(logical)
            /\ JobArray = <<0, 10, 2>> =>
                  /\ DOMAIN jobs = {1, 3, 5, 7, 9}
                  /\ job_ids = <<1, 3, 5, 7, 9>>

\* C8 witness: the array job (0, 10, 2) has been submitted
C8_Witness ==
    /\ OnArray
    /\ JobArray = <<0, 10, 2>>
    /\ Positions("runBulkJobs") # {}
    /\ Cardinality(DOMAIN jobs) = 5

\* the wait outcomes recorded for the k-th job of the call
Outcome(k) ==
    {o \in WaitOutcomes : <<o, job_ids[k]>> \in {calls[p] : p \in DOMAIN calls}}

\* C9: when waiting for a cluster job raises the diagnostic-only error of
\* the resource manager ("code 24"), the job is treated as successful: its
\* output is collected, its job script is deleted and run() does not raise
\* for it. Any other exception from the wait propagates to the caller.
C9_Code24IsSuccess ==
    (OnBatch \/ OnSingle) =>
        \A k \in DOMAIN job_ids :
            /\ "code 24" \in Outcome(k) =>
                  /\ collected >= k
                  /\ job_path(filenames[k]) \notin files
                  /\ stdout_path(filenames[k]) \notin files
                  /\ stderr_path(filenames[k]) \notin files
                  /\ pc = "raised" => collected + 1 > k
                  /\ OnSingle => pc \in {"single_delete", "returned"}
            /\ "other" \in Outcome(k) =>
                  /\ pc = "raised"
                  /\ error.type = "DrmaaError"
                  /\ collected = k - 1

\* C9 witness: a single job that exited nonzero, with errors not ignored,
\* whose wait raised "code 24", and run() has returned
C9_Witness ==
    /\ OnSingle
    /\ pc = "returned"
    /\ Len(job_ids) = 1
    /\ "code 24" \in Outcome(1)
    /\ jobs[job_ids[1]].exitStatus # 0
    /\ ~is_ignore_errors(options)

\* the value of key k by precedence: kwargs, then caller locals, then PARAMS
Precedence(k) ==
    IF k \in DOMAIN kwargs THEN kwargs[k]
    ELSE IF k \in DOMAIN caller_locals THEN caller_locals[k]
    ELSE PARAMS[k]

\* the keys defined by any of the three sources
SourceKeys == DOMAIN kwargs \cup DOMAIN caller_locals \cup DOMAIN PARAMS

\* C10 as stated: for every key, the option value run() works with is the
\* keyword override if passed, else the caller's local of that name, else
\* the value in PARAMS.
C10_EveryKeyByPrecedence ==
    pc = "build" => \A k \in SourceKeys : options[k] = Precedence(k)

\* the keys run() rewrites after the merge
RewrittenKeys ==
    {"cluster_options", "cluster_queue"}
        \cup (IF has_statements(options) THEN {"statement"} ELSE {})

\* C10: for every key other than the legacy synonyms cluster_options and
\* cluster_queue (and statement, when a statements list is given), the
\* option value run() works with is the keyword override if passed, else the
\* caller's local of that name, else the value in PARAMS.
C10_PrecedenceButSynonyms ==
    pc \notin {"idle"} =>
        /\ SourceKeys \subseteq DOMAIN options
        /\ \A k \in SourceKeys \ RewrittenKeys : options[k] = Precedence(k)

\* C10 witness: to_cluster is defined by PARAMS, by the caller's locals and
\* by the keyword arguments, the latter two with different values
C10_Witness ==
    /\ pc = "build"
    /\ "to_cluster" \in DOMAIN PARAMS
    /\ "to_cluster" \in DOMAIN caller_locals
    /\ "to_cluster" \in DOMAIN kwargs
    /\ kwargs["to_cluster"] # caller_locals["to_cluster"]

\* the options of the call after the merge and the legacy synonyms
MergedOptions ==
    LET merged == Update(Update(PARAMS, caller_locals), kwargs)
    IN  Update(merged,
               "cluster_options" :>
                   Get(merged, "job_options", merged["cluster_options"]))

\* the cluster options carry a mem_free marker that is not of the form
\* "-l mem_free=<amount>", and no job_memory is set
MalformedMemory ==
    /\ "job_memory" \notin DOMAIN MergedOptions
    /\ mem_free_in(MergedOptions["cluster_options"])
    /\ mem_free_search(MergedOptions["cluster_options"]) = "None"

\* the call has started no process, written no job script, created no job
\* template and submitted no job
NothingStarted ==
    /\ calls = <<>>
    /\ started = 0
    /\ files = {}
    /\ templates = {}
    /\ jobs = EmptyDict

\* C11: the memory request of run() is an explicit job_memory if present;
\* else, if the cluster options contain the mem_free marker, the amount
\* parsed out of it; else the global cluster_memory_default. A marker that
\* is not of the form "-l mem_free=<amount>" makes run() fail before any
\* process or job is started.
C11_MemoryOrder ==
    pc # "idle" =>
        IF "job_memory" \in DOMAIN MergedOptions
        THEN job_memory = MergedOptions["job_memory"]
        ELSE IF mem_free_in(MergedOptions["cluster_options"])
        THEN IF MalformedMemory
             THEN /\ pc = "raised"
                  /\ error.type = "ValueError"
                  /\ NothingStarted
             ELSE job_memory = mem_free_search(MergedOptions["cluster_options"])
        ELSE job_memory = PARAMS["cluster_memory_default"]

\* C11 witness: a call with job_memory "1G" and the marker "-l mem_free=4G"
\* in job_options has run its statement with a request of 1G
C11_Witness ==
    /\ pc = "returned"
    /\ calls # <<>>
    /\ "job_memory" \in DOMAIN kwargs
    /\ Get(kwargs, "job_options", "") = "-l mem_free=4G"
    /\ job_memory = "1G"

\* the task specific key of the call's output file names a parameter that
\* the options do not hold
UnmatchedTaskKey ==
    /\ "outfile" \in DOMAIN MergedOptions
    /\ \E t \in TaskSpecificKeys :
          /\ t.key \in DOMAIN MergedOptions
          /\ t.outfile = MergedOptions["outfile"]
          /\ t.param \notin DOMAIN MergedOptions

\* template t has a placeholder that is not closed or names a key the
\* options do not hold
Unformattable(t) ==
    \E i \in DOMAIN t :
        \/ t[i].kind = "bad"
        \/ t[i].kind = "ph" /\ t[i].text \notin DOMAIN MergedOptions

\* the templates of the call: the statements list if there is one, else
\* the statement
CallTemplates ==
    IF "statements" \in DOMAIN MergedOptions
    THEN MergedOptions["statements"]
    ELSE IF "statement" \in DOMAIN MergedOptions
    THEN <<MergedOptions["statement"]>>
    ELSE <<>>

\* the call has no statement, or one of its statements does not build
StatementFails ==
    \/ CallTemplates = <<>>
    \/ UnmatchedTaskKey
    \/ \E i \in DOMAIN CallTemplates : Unformattable(CallTemplates[i])

\* C18: configuration and statement errors (undefined placeholder, malformed
\* placeholder, missing statement, unmatched task specific key, malformed
\* legacy memory marker) fail fast: when run() raises one of them no local
\* process has been started and no job has been submitted; if any statement
\* of a statements list fails to build, none of them is executed or
\* submitted.
C18_FailFast ==
    /\ (pc \notin {"idle", "build"} /\ (MalformedMemory \/ StatementFails)) =>
          /\ pc = "raised"
          /\ error.type \in {"KeyError", "ValueError"}
          /\ NothingStarted
    /\ (pc = "raised" /\ error.type \in {"KeyError", "ValueError"}
           /\ statement_list = <<>>) =>
          /\ MalformedMemory \/ StatementFails
          /\ NothingStarted

\* C18 witness: with a session, a list of two statements whose first builds
\* and whose second has a placeholder that is not closed has been raised for
C18_Witness ==
    /\ pc = "raised"
    /\ GLOBAL_SESSION # "None"
    /\ run_on_cluster
    /\ Len(CallTemplates) = 2
    /\ ~Unformattable(CallTemplates[1])
    /\ Unformattable(CallTemplates[2])
    /\ ~UnmatchedTaskKey
    /\ NothingStarted

\* the arguments merged over PARAMS for the helper function called
HelperMerged(kw) == [k \in DOMAIN PARAMS \cup DOMAIN kw |->
                        IF k \in DOMAIN kw THEN kw[k] ELSE PARAMS[k]]

\* the task specific keys of PARAMS that name parameter p for the outfile
\* passed in kw
NamedBy(kw, p) ==
    {t \in TaskSpecificKeys :
        /\ "outfile" \in DOMAIN kw
        /\ t.outfile = kw["outfile"]
        /\ t.key \in DOMAIN PARAMS
        /\ t.param = p}

\* the value of parameter p for the task: the value under the task specific
\* key if there is one, else the merged value
Effective(kw, p) ==
    IF NamedBy(kw, p) # {}
    THEN PARAMS[(CHOOSE t \in NamedBy(kw, p) : TRUE).key]
    ELSE HelperMerged(kw)[p]

\* a task specific key for the outfile names a parameter that does not exist
NamesMissing(kw) ==
    \E t \in TaskSpecificKeys :
        NamedBy(kw, t.param) # {} /\ t.param \notin DOMAIN HelperMerged(kw)

\* C16: substituteParameters merges the global map with the overrides, the
\* override winning; with an outfile among the overrides every global key
\* <outfile><separator><param> whose <param> exists replaces the value of
\* <param> in the result (outfile "sample1.bam.gz", "sample1.bam.gz_threads"
\* = 6 and threads = 4 give threads = 6); every other parameter keeps its
\* merged value.
C16_TaskSpecificOverride ==
    fn = "substituteParameters" =>
        /\ fn_result.raised = "none" <=> ~NamesMissing(fn_args)
        /\ fn_result.raised = "none" =>
              /\ DOMAIN fn_result.value = DOMAIN PARAMS \cup DOMAIN fn_args
              /\ \A p \in DOMAIN fn_result.value :
                    fn_result.value[p] = Effective(fn_args, p)
              /\ \A p \in DOMAIN fn_result.value :
                    NamedBy(fn_args, p) = {} =>
                        fn_result.value[p] = HelperMerged(fn_args)[p]
              /\ (/\ Get(fn_args, "outfile", "") = "sample1.bam.gz"
                  /\ Get(PARAMS, "sample1.bam.gz_threads", "") = "6"
                  /\ Get(PARAMS, "threads", "") = "4") =>
                    fn_result.value["threads"] = "6"

\* C16 witness: called with outfile "sample1.bam.gz" while PARAMS holds
\* "sample1.bam.gz_threads" = 6 and threads = 4, it returned threads = 6
C16_Witness ==
    /\ fn = "substituteParameters"
    /\ Get(fn_args, "outfile", "") = "sample1.bam.gz"
    /\ "threads" \notin DOMAIN fn_args
    /\ Get(PARAMS, "sample1.bam.gz_threads", "") = "6"
    /\ Get(PARAMS, "threads", "") = "4"
    /\ fn_result.raised = "none"
    /\ fn_result.value["threads"] = "6"

\* the placeholders of template t that name a key defined nowhere
UndefinedAt(kw, t) ==
    {i \in DOMAIN t :
        t[i].kind = "ph" /\ t[i].text \notin DOMAIN PARAMS \cup DOMAIN kw}

\* C17: buildStatement fails when there is no statement key; otherwise it
\* replaces every %(key)s placeholder by the value of the key in the merged
\* options ("echo %(x)s" with x = "hi" gives "echo hi"), and a template
\* that references a key defined nowhere fails with a "could not find ... in
\* dictionaries" error that names the key.
C17_BuildOrNameTheKey ==
    fn = "buildStatement" =>
        IF "statement" \notin DOMAIN fn_args
        THEN fn_result.raised = "ValueError"
        ELSE LET t == fn_args["statement"]
                 undefined == UndefinedAt(fn_args, t)
             IN  (~NamesMissing(fn_args)
                    /\ \A i \in DOMAIN t : t[i].kind # "bad") =>
                   IF undefined # {}
                   THEN /\ fn_result.raised = "KeyError"
                        /\ fn_result.value =
                              <<"Error when creating command: could not find",
                                t[CHOOSE i \in undefined :
                                     \A j \in undefined : i <= j].text,
                                "in dictionaries">>
                   ELSE /\ fn_result.raised = "none"
                        /\ fn_result.value =
                              [i \in DOMAIN t |->
                                  IF t[i].kind = "ph"
                                  THEN Effective(fn_args, t[i].text)
                                  ELSE t[i].text]
                        /\ (t = tplX /\ fn_args["x"] = "hi") =>
                              fn_result.value = <<"echo", "hi">>

\* C17 witness: "echo %(x)s" called without x has raised the KeyError that
\* names x
C17_Witness ==
    /\ fn = "buildStatement"
    /\ "statement" \in DOMAIN fn_args
    /\ fn_args["statement"] = tplX
    /\ "x" \notin DOMAIN fn_args
    /\ fn_result.raised = "KeyError"
    /\ fn_result.value[2] = "x"

\* a joined statement cut at its checkpoint separators
RECURSIVE Segments(_)
Segments(r) ==
    IF \E i \in DOMAIN r : r[i] = Checkpoint
    THEN LET i == CHOOSE i \in DOMAIN r :
                     r[i] = Checkpoint /\ \A j \in 1..(i - 1) : r[j] # Checkpoint
         IN  <<SubSeq(r, 1, i - 1)>> \o Segments(SubSeq(r, i + 1, Len(r)))
    ELSE <<r>>

\* the positions of the tokens of one kind in the k-th step of the chain
\* that are still there after the step lost a trailing ";"
StepPositions(steps, segs, k, kind) ==
    {i \in DOMAIN steps[k] \cap DOMAIN segs[k] : steps[k][i].kind = kind}

\* C19: joinStatements chains the steps through temporary names: @IN@ of the
\* first step is the input file; for every two consecutive steps @OUT@ of
\* the earlier and @IN@ of the later are the same temporary name; a
\* checkpoint stands between every two consecutive steps; the joined
\* statement ends with a statement that removes the temporaries.
C19_Chained ==
    fn = "joinStatements" =>
        LET steps == fn_args.statements
            r == fn_result.value
            segs == Segments(r)
            n == Len(steps)
        IN  /\ Len(segs) = n + 1
            /\ \A k \in 1..n :
                  Len(segs[k]) \in {Len(steps[k]), Len(steps[k]) - 1}
            /\ \A i \in DOMAIN r : r[i].kind \notin {"in", "out"}
            /\ n > 0 => \A i \in StepPositions(steps, segs, 1, "in") :
                  segs[1][i] = Tok("file", fn_args.infile, 0, 0)
            /\ \A k \in 1..(n - 1) :
                  \A i \in StepPositions(steps, segs, k, "out"),
                     j \in StepPositions(steps, segs, k + 1, "in") :
                      /\ segs[k][i].kind = "tmp"
                      /\ segs[k][i] = segs[k + 1][j]
            /\ Len(segs[n + 1]) = 1
            /\ segs[n + 1][1].kind = "rm"
            /\ \A i \in DOMAIN r :
                  r[i].kind = "tmp" => r[i].prefix = segs[n + 1][1].prefix
            /\ temp_path(segs[n + 1][1].prefix) \in files

\* C19 witness: "step1 @OUT@" and "step2 @IN@ @OUT@" joined: the second and
\* the fifth token are the same temporary name
C19_Witness ==
    /\ fn = "joinStatements"
    /\ fn_args.statements = <<<<Lit("step1"), Out>>, <<Lit("step2"), In, Out>>>>
    /\ Len(fn_result.value) = 8
    /\ fn_result.value[2].kind = "tmp"
    /\ fn_result.value[2] = fn_result.value[5]
    /\ fn_result.value[3] = Checkpoint
    /\ fn_result.value[8].kind = "rm"

\* the parameter isTrue looked at is absent, or holds the number 0, the
\* empty string, "false" or "False"
FalseValued(param, kw) ==
    \/ param \notin DOMAIN HelperMerged(kw)
    \/ LET v == HelperMerged(kw)[param]
       IN  \/ v.t \in {"int", "float", "bool"} /\ v.n = 0
           \/ v.t = "str" /\ v.s \in {"", "false", "False"}

\* C20: isTrue(param) is false exactly when the parameter is absent or its
\* value is 0, the empty string, "false" or "False"; for any other value,
\* the string "0.0" included, it is true.
C20_FalseExactlyWhen ==
    fn = "isTrue" =>
        /\ fn_result.value = ~FalseValued(fn_args.param, fn_args.kwargs)
        /\ (/\ fn_args.param \in DOMAIN HelperMerged(fn_args.kwargs)
            /\ HelperMerged(fn_args.kwargs)[fn_args.param] = PyStr("0.0")) =>
              fn_result.value = TRUE

\* C20 witness: isTrue("flag") with PARAMS["flag"] the string "0.0" has
\* returned True
C20_Witness ==
    /\ fn = "isTrue"
    /\ fn_args.param = "flag"
    /\ fn_args.kwargs = EmptyDict
    /\ "flag" \in DOMAIN PARAMS
    /\ PARAMS["flag"] = PyStr("0.0")
    /\ fn_result.value = TRUE

\* main() has left the make action, the pipeline run having succeeded or
\* failed with task errors
LeftMake ==
    /\ main_pc \in {"returned", "raised"}
    /\ main_options.pipeline_action = "make"
    /\ main_error \in {"none", "ValueError", "RethrownJobError"}

\* C12: the cluster session is initialized once when a make action begins
\* with cluster use enabled and is torn down at the end of that action:
\* whenever main() leaves the make action, whether the pipeline run
\* succeeded or failed, the session it initialized has been exited.
C12_SessionExitedAfterMake ==
    /\ (main_pc \in {"pipeline_run", "make_end", "handler"}
           /\ main_options.pipeline_action = "make") =>
          session_log = IF main_options.without_cluster THEN <<>>
                        ELSE <<"initialize">>
    /\ LeftMake =>
          session_log = IF main_options.without_cluster THEN <<>>
                        ELSE <<"initialize", "exit">>

\* C13: the payload file written for a remote function call is unpickled
\* exactly once by run_pickled and deleted after the target function
\* returns, when it returned normally and when it raised: after run_pickled
\* ends, the payload file no longer exists.
C13_PayloadDeleted ==
    (rc_pc \in {"returned", "raised"} /\ payload.written
        /\ rc_error \in {"none", "function error"}) =>
        /\ payload_reads = 1
        /\ args_file \notin files

\* the keyword arguments that steer the dispatch only
DispatchOnly == {"submit", "job_options", "job_queue", "job_threads",
                 "job_memory", "to_cluster", "logfile"}

\* C14: a function wrapped by cluster_runnable never sees dispatch-only
\* keyword arguments: in process and on resubmission, submit and the job
\* resource hints are removed from kwargs before the function is called or
\* its kwargs are pickled.
C14_NoDispatchKwargs ==
    /\ func_call.called => DOMAIN func_call.kwargs \cap DispatchOnly = {}
    /\ payload.written => DOMAIN payload.kwargs \cap DispatchOnly = {}

\* the sources of the last call of getParameters, in the order of the
\* claim: the hard-coded parameters, the defaults argument, then the files
\* read
Sources == <<"hardcoded", "defaults">> \o gp_args.read

\* the k-th source defines key
Defines(k, key) ==
    CASE k = 1 -> key \in DOMAIN HARDCODED_PARAMS
      [] k = 2 -> key \in DOMAIN gp_args.defaults
      [] OTHER ->
            /\ Sources[k] \in DOMAIN ini_files
            /\ \E o \in ini_files[Sources[k]] :
                  \/ o.section \in {"general", "DEFAULT"} /\ o.key = key
                  \/ o.section \notin {"general", "DEFAULT"}
                        /\ Prefixed(o.section, o.key) = key
                  \/ o.section = "general"
                        /\ Prefixed(o.section, o.key) = key

\* the value the k-th source gives to a key it defines
SourceValue(k, key) ==
    CASE k = 1 -> HARDCODED_PARAMS[key]
      [] k = 2 -> gp_args.defaults[key]
      [] OTHER -> Sources[k]

\* some source defines key
HasSource(key) == \E k \in DOMAIN Sources : Defines(k, key)

\* the last source that defines key
LastSource(key) ==
    CHOOSE k \in DOMAIN Sources :
        Defines(k, key) /\ \A j \in DOMAIN Sources : Defines(j, key) => j <= k

\* C15: getParameters merges its sources in the order hard-coded values,
\* defaults argument, installation default ini, ~/.cgat if present, the
\* caller's files in list order: for every key the value in the resulting
\* map is the one of the last source that defines the key, and a key defined
\* only in the installation default keeps that value.
C15_LastSourceWins ==
    gp_calls = 1 =>
        \A key \in {"x", "general_x", "cluster_queue", "cluster_priority"} :
            HasSource(key) =>
                /\ key \in DOMAIN PARAMS
                /\ PARAMS[key] = SourceValue(LastSource(key), key)

\* C24: getStdoutStderr checks the existence of each file at most `tries`
\* times, and when it has returned it has raised nothing, a file that was
\* missing when it was opened being returned as empty output with a warning
\* logged.
C24_AtMostTriesChecks ==
    /\ gs_checks.stdout <= gs_tries
    /\ gs_checks.stderr <= gs_tries
    /\ gs_pc = "returned" =>
          /\ gs_result.raised = "none"
          /\ Len(gs_result.warnings) =
                Cardinality({n \in {"stdout", "stderr"} :
                                gs_result[n] = "empty"})

\* C25: when getStdoutStderr has returned, neither the stdout file nor the
\* stderr file exists.
C25_BothFilesRemoved ==
    gs_pc = "returned" =>
        /\ the_stdout \notin files
        /\ the_stderr \notin files

\* the starts and ends of local processes, in the order they happened
LocalCalls == SelectSeq(calls, LAMBDA c : c[1] \in {"Popen", "communicate"})

\* C27: on the local path with a statements list, run() executes the
\* statements one at a time in list order, each as exactly one blocking
\* process, the next started only after the previous has ended; when a
\* statement exits nonzero and ignore_errors is false, run() raises at once
\* and no later statement is started.
C27_OneBlockingProcessEach ==
    (~run_on_cluster /\ has_statements(options) /\ pc \notin {"idle", "build"}) =>
        /\ \A p \in DOMAIN LocalCalls :
              LocalCalls[p] = <<IF p % 2 = 1 THEN "Popen" ELSE "communicate",
                                (p + 1) \div 2>>
        /\ started = (Len(LocalCalls) + 1) \div 2
        /\ started <= Len(statement_list)
        /\ pc = "local_communicate" <=> Len(LocalCalls) % 2 = 1
        /\ started > 0 =>
              process.statement \in
                  {statement_list[started],
                   <<"/bin/bash", "-c">> \o statement_list[started]}
        /\ (Len(LocalCalls) > 0 /\ Len(LocalCalls) % 2 = 0 /\ returncode # 0
              /\ ~is_ignore_errors(options)) =>
                  /\ pc = "raised"
                  /\ error.type = "PipelineError"
        /\ (pc = "returned" /\ ~is_dryrun(options)) =>
              Len(LocalCalls) = 2 * Len(statement_list)

\* the first of two statements has failed and run() has raised
C27_Witness ==
    /\ ~run_on_cluster
    /\ has_statements(options)
    /\ Len(statement_list) = 2
    /\ pc = "raised"
    /\ error.type = "PipelineError"
    /\ LocalCalls = <<(<<"Popen", 1>>), (<<"communicate", 1>>)>>

\* C22: every job template run() creates on the cluster path is deleted from
\* the session by the time run() returns or raises, a job failure included.
C22_TemplateDeletedAtEnd ==
    (Ended /\ Positions("createJobTemplate") # {}) =>
        /\ jt \notin templates
        /\ Cardinality(Positions("deleteJobTemplate")) =
              Cardinality(Positions("createJobTemplate"))

\* C29: getParameters leaves its filenames argument unchanged: after a call
\* the caller's list and the default list hold the elements they held before
\* it.
C29_FilenamesUnchanged ==
    gp_calls > 0 =>
        /\ gp_default = <<"pipeline.ini">>
        /\ gp_args.list = "caller" => gp_list = gp_args.names

\* C30: the map the Pipeline module reads as PARAMS is the object that was
\* dropped into the Local module as Local.PARAMS, a value set through one
\* being seen through the other.
C30_OneSharedObject ==
    /\ Local_PARAMS.object = PARAMS_object
    /\ Local_PARAMS.items = PARAMS

\* C26: once main() has written a command line value into PARAMS, PARAMS
\* holds that value for the key for the rest of the run, also after a later
\* getParameters call.
C26_CommandLineKept ==
    main_pc # "not called" =>
        /\ PARAMS["dryrun"] = main_options.dry_run
        /\ main_options.cluster_queue # "None" =>
              PARAMS["cluster_queue"] = main_options.cluster_queue

\* C21: every key that was once present in PARAMS is still present after
\* every step of getParameters and of main().
C21_KeysNeverDeleted ==
    [][\A k \in DOMAIN PARAMS : k \in DOMAIN PARAMS']_vars

\* the second call of getParameters passed no defaults and no file defines x,
\* main() has written dryrun, and both keys are in PARAMS
C21_Witness ==
    /\ gp_calls = 2
    /\ main_pc # "not called"
    /\ gp_args.defaults = EmptyDict
    /\ "dryrun" \in DOMAIN PARAMS
    /\ "x" \in DOMAIN PARAMS
    /\ PARAMS["x"] = "defaults"

\* C28: a call of run(), with the buildStatement and substituteParameters
\* calls it makes, leaves the global PARAMS map unchanged: no step of the
\* call changes an item of PARAMS or of Local.PARAMS, whatever it writes into
\* its own options.
C28_ParamsUntouched ==
    [][(pc' # pc \/ options' # options) =>
          /\ PARAMS' = PARAMS
          /\ Local_PARAMS' = Local_PARAMS]_vars

\* run() has ended with the legacy synonym without_cluster and the task's
\* outfile in its options, and neither is in PARAMS
C28_Witness ==
    /\ Ended
    /\ statement_list # <<>>
    /\ {"without_cluster", "outfile"} \subseteq DOMAIN options
    /\ "without_cluster" \notin DOMAIN PARAMS
    /\ "outfile" \notin DOMAIN PARAMS

\* the jobs, the job scripts and the output files of the call of worker w
OwnJobs(w) == {workers[w].job_ids[i] : i \in DOMAIN workers[w].job_ids}
OwnPaths(w) ==
    UNION {{job_path(workers[w].filenames[i]),
            stdout_path(workers[w].filenames[i]),
            stderr_path(workers[w].filenames[i])} :
              i \in DOMAIN workers[w].filenames}

\* C23: when several workers call run() at the same time on the one shared
\* session, a call that has returned has waited for every job it submitted
\* and all of them have finished, and every call waits for its own jobs
\* only and reads and deletes its own job scripts and output files only,
\* which no other call shares.
C23_OwnJobsOnly ==
    \A w \in Workers :
        /\ workers[w].pc = "returned" =>
              /\ workers[w].waited = OwnJobs(w)
              /\ \A id \in OwnJobs(w) : jobs[id].done
        /\ workers[w].waited \subseteq OwnJobs(w)
        /\ workers[w].touched \subseteq OwnPaths(w)
        /\ \A v \in Workers \ {w} :
              /\ OwnJobs(w) \cap OwnJobs(v) = {}
              /\ OwnPaths(w) \cap OwnPaths(v) = {}

\* one worker has returned from a list of two statements while the job of
\* the other worker is still running
C23_Witness ==
    \E w \in Workers, v \in Workers :
        /\ workers[w].pc = "returned"
        /\ Len(workers[w].job_ids) = 2
        /\ workers[v].pc = "collect"
        /\ \E id \in OwnJobs(v) : ~jobs[id].done

====
